---- MODULE Spec2Model ----
(***************************************************************************)
(* Guardian plugin: intent-alignment review of tool calls.                 *)
(*                                                                         *)
(* Texts are sequences of tokens.  A token stands for a piece of a string  *)
(* (a verdict word, a colon, a blank, a newline, a word of free text), so  *)
(* that split, trim, startsWith, indexOf and slice are computed on the     *)
(* text and never assumed.                                                 *)
(***************************************************************************)
EXTENDS Integers, Sequences, FiniteSets, TLC

----------------------------------------------------------------------------
(* Bounds of the model *)

MaxLines == 3
MaxReviews == 2
MaxNow == 5001
MaxInputs == 1
MaxCacheOps == 3

----------------------------------------------------------------------------
(* Text primitives *)

NL == "\n"
SP == " "
COLON == ":"

Undefined == <<"undefined">>

IsSpace(t) == t \in {SP, NL}

\* String.prototype.toUpperCase on one token
toUpperCase(t) ==
  CASE t \in {"allow", "Allow", "ALLOW"} -> "ALLOW"
    [] t \in {"block", "Block", "BLOCK"} -> "BLOCK"
    [] OTHER -> t

\* String.prototype.toLowerCase on a tool name
toLowerCase(name) ==
  CASE name = "Exec" -> "exec"
    [] name = "Message" -> "message"
    [] name = "Read" -> "read"
    [] OTHER -> name

RECURSIVE trimStart(_)
trimStart(s) ==
  IF s = <<>> THEN <<>>
  ELSE IF IsSpace(Head(s)) THEN trimStart(Tail(s)) ELSE s

RECURSIVE trimEnd(_)
trimEnd(s) ==
  IF s = <<>> THEN <<>>
  ELSE IF IsSpace(s[Len(s)]) THEN trimEnd(SubSeq(s, 1, Len(s) - 1)) ELSE s

\* String.prototype.trim
trim(s) == trimEnd(trimStart(s))

\* content.split("\n"): the lines of a text, newline tokens removed
RECURSIVE split(_)
split(s) ==
  IF \A i \in 1..Len(s) : s[i] # NL THEN <<s>>
  ELSE LET i == CHOOSE k \in 1..Len(s) :
                  s[k] = NL /\ \A j \in 1..(k - 1) : s[j] # NL
       IN <<SubSeq(s, 1, i - 1)>> \o split(SubSeq(s, i + 1, Len(s)))

\* parts.join(sep)
RECURSIVE join(_, _)
join(parts, sep) ==
  IF parts = <<>> THEN <<>>
  ELSE IF Len(parts) = 1 THEN parts[1]
  ELSE parts[1] \o <<sep>> \o join(Tail(parts), sep)

\* line.indexOf(":"), 0 when there is none (positions count from 1)
indexOf(s, t) ==
  IF \E i \in 1..Len(s) : s[i] = t
  THEN CHOOSE i \in 1..Len(s) : s[i] = t /\ \A j \in 1..(i - 1) : s[j] # t
  ELSE 0

\* line.toUpperCase().startsWith(word), word being a verdict token; the
\* tokens "ALLOWED" and "BLOCKED" begin with one
startsWith(s, word) ==
  /\ s # <<>>
  /\ \/ toUpperCase(s[1]) = word
     \/ word = "ALLOW" /\ s[1] = "ALLOWED"
     \/ word = "BLOCK" /\ s[1] = "BLOCKED"

\* Number of characters of a token
TokLen(t) ==
  CASE t \in {NL, SP, COLON, "/"} -> 1
    [] toUpperCase(t) \in {"ALLOW", "BLOCK"} -> 5
    [] t \in {"ALLOWED", "BLOCKED"} -> 7
    [] t = "long" -> 58
    [] t = "(unable to serialize arguments)" -> 31
    [] OTHER -> 2

RECURSIVE CharLen(_)
CharLen(s) == IF s = <<>> THEN 0 ELSE TokLen(Head(s)) + CharLen(Tail(s))

\* s.slice(0, n): a token cut by the limit is kept as the token "<cut>"
RECURSIVE slice0(_, _)
slice0(s, n) ==
  IF s = <<>> \/ n <= 0 THEN <<>>
  ELSE IF TokLen(Head(s)) <= n
       THEN <<Head(s)>> \o slice0(Tail(s), n - TokLen(Head(s)))
       ELSE <<"<cut>">>

\* s.slice(n): the characters from position n on; what is left of a token
\* the position falls into is "ED" for "ALLOWED" and "BLOCKED" cut at 5
RECURSIVE sliceFrom(_, _)
sliceFrom(s, n) ==
  IF s = <<>> \/ n <= 0 THEN s
  ELSE IF TokLen(Head(s)) <= n THEN sliceFrom(Tail(s), n - TokLen(Head(s)))
  ELSE IF Head(s) \in {"ALLOWED", "BLOCKED"} /\ n = 5 THEN <<"ED">> \o Tail(s)
  ELSE <<"<rest>">> \o Tail(s)

----------------------------------------------------------------------------
(* guardian-client: fallback decision and verdict parser *)

makeFallbackDecision(fallbackPolicy) ==
  IF fallbackPolicy = "block"
  THEN [action |-> "block", reason |-> <<"Guardian unavailable (fallback: block)">>]
  ELSE [action |-> "allow", reason |-> <<"Guardian unavailable (fallback: allow)">>]

\* reason of a matched verdict line: after the first colon, else after the
\* 5-character verdict token
\* Mutant of verdictReason: always what follows the verdict token
verdictReasonAfterToken(line) == trim(sliceFrom(line, 5))

verdictReason(line) ==
  LET colonIndex == indexOf(line, COLON)
  IN IF colonIndex >= 1 THEN trim(SubSeq(line, colonIndex + 1, Len(line)))
     ELSE trim(sliceFrom(line, 5))

notRecognized(quoted, fallback) ==
  [action |-> fallback.action,
   reason |-> <<"Guardian response not recognized (">> \o quoted \o <<"): ">>
              \o fallback.reason]

verdictOfLine(line) ==
  IF startsWith(line, "ALLOW")
  THEN LET reason == verdictReason(line)
       IN [action |-> "allow", reason |-> IF reason = <<>> THEN Undefined ELSE reason]
  ELSE LET reason == verdictReason(line)
       IN [action |-> "block",
           reason |-> IF reason = <<>> THEN <<"Blocked by guardian">> ELSE reason]

IsVerdictLine(line) == startsWith(line, "ALLOW") \/ startsWith(line, "BLOCK")

\* parseGuardianResponse of the completeSimple-based client: forward scan over
\* all lines, blank lines and non-verdict lines skipped
RECURSIVE scanLines(_, _, _)
scanLines(lines, content, fallback) ==
  IF lines = <<>> THEN notRecognized(slice0(trim(content), 60), fallback)
  ELSE LET line == trim(Head(lines))
       IN IF line = <<>> THEN scanLines(Tail(lines), content, fallback)
          ELSE IF IsVerdictLine(line) THEN verdictOfLine(line)
          ELSE scanLines(Tail(lines), content, fallback)

parseGuardianResponseScan(content, fallback) ==
  scanLines(split(content), content, fallback)

\* parseGuardianResponse of the fetch-based client: only the first non-blank
\* line is examined
parseGuardianResponseFirstLine(content, fallback) ==
  LET lines == split(content)
      nonBlank == {i \in 1..Len(lines) : trim(lines[i]) # <<>>}
      firstLine == IF nonBlank = {} THEN <<>>
                   ELSE trim(lines[CHOOSE i \in nonBlank : \A j \in nonBlank : i <= j])
  IN IF IsVerdictLine(firstLine) THEN verdictOfLine(firstLine)
     ELSE notRecognized(slice0(firstLine, 60), fallback)

\* The two guardian-client sources of the repository
Clients == {"sdk", "fetch"}

parseGuardianResponse(client, content, fallback) ==
  IF client = "sdk" THEN parseGuardianResponseScan(content, fallback)
  ELSE parseGuardianResponseFirstLine(content, fallback)

----------------------------------------------------------------------------
(* message-cache: metadata sanitizer and turn extractor *)

\* Tokens of "Conversation info (untrusted metadata):" and of a ``` fence
LABEL == "<label>"
FENCE == "<fence>"

\* metadataPattern: label, optional whitespace, fence, lazily up to the next
\* fence; replaced left to right, matches never overlapping
RECURSIVE removeMetadata(_)
removeMetadata(s) ==
  IF s = <<>> THEN <<>>
  ELSE IF Head(s) = LABEL
       THEN LET rest == trimStart(Tail(s))
            IN IF rest # <<>> /\ Head(rest) = FENCE /\ indexOf(Tail(rest), FENCE) >= 1
               THEN removeMetadata(SubSeq(Tail(rest), indexOf(Tail(rest), FENCE) + 1,
                                          Len(Tail(rest))))
               ELSE <<LABEL>> \o removeMetadata(Tail(s))
       ELSE <<Head(s)>> \o removeMetadata(Tail(s))

\* Length of the run of newlines at the head of s
RECURSIVE newlineRun(_)
newlineRun(s) ==
  IF s = <<>> \/ Head(s) # NL THEN 0 ELSE 1 + newlineRun(Tail(s))

\* cleaned.replace(/\n{3,}/g, "\n\n")
RECURSIVE collapseNewlines(_)
collapseNewlines(s) ==
  IF s = <<>> THEN <<>>
  ELSE LET n == newlineRun(s)
       IN IF n >= 3 THEN <<NL, NL>> \o collapseNewlines(SubSeq(s, n + 1, Len(s)))
          ELSE IF n >= 1 THEN SubSeq(s, 1, n) \o collapseNewlines(SubSeq(s, n + 1, Len(s)))
          ELSE <<Head(s)>> \o collapseNewlines(Tail(s))

stripChannelMetadata(text) == trim(collapseNewlines(removeMetadata(text)))

\* A message of the history:
\*   [shape |-> "message", role, content]  an object with a string role and a content
\*   [shape |-> "malformed"]               null, a non-object, no role or no content
\* and a content:
\*   [kind |-> "string", text]   [kind |-> "blocks", blocks]   [kind |-> "other"]
\* a block being [type |-> "text" or another kind, text]
isMessageLike(msg) == msg.shape = "message"

IsTextBlock(block) == block.type = "text"

RECURSIVE firstTextBlock(_)
firstTextBlock(blocks) ==
  IF blocks = <<>> THEN Undefined
  ELSE IF IsTextBlock(Head(blocks))
          /\ stripChannelMetadata(trim(Head(blocks).text)) # <<>>
       THEN stripChannelMetadata(trim(Head(blocks).text))
       ELSE firstTextBlock(Tail(blocks))

extractTextContent(content) ==
  IF content.kind = "string"
  THEN IF stripChannelMetadata(trim(content.text)) = <<>> THEN Undefined
       ELSE stripChannelMetadata(trim(content.text))
  ELSE IF content.kind = "blocks" THEN firstTextBlock(content.blocks)
  ELSE Undefined

RECURSIVE textParts(_)
textParts(blocks) ==
  IF blocks = <<>> THEN <<>>
  ELSE IF IsTextBlock(Head(blocks))
       THEN <<trim(Head(blocks).text)>> \o textParts(Tail(blocks))
       ELSE textParts(Tail(blocks))

extractAssistantText(content) ==
  IF content.kind = "string"
  THEN IF trim(content.text) = <<>> THEN Undefined ELSE trim(content.text)
  ELSE IF content.kind = "blocks"
       THEN IF trim(join(textParts(content.blocks), NL)) = <<>> THEN Undefined
            ELSE trim(join(textParts(content.blocks), NL))
  ELSE Undefined

\* Mutant of mergeAssistantParts: only the last part is kept
mergeAssistantPartsLastOnly(parts) ==
  IF Len(parts) = 0 THEN Undefined ELSE parts[Len(parts)]

mergeAssistantParts(parts) ==
  IF Len(parts) = 0 THEN Undefined
  ELSE IF trim(join(parts, NL)) = <<>> THEN Undefined
  ELSE trim(join(parts, NL))

\* Mutant of IsSlash: no text counts as a slash command
IsSlashNever(text) == FALSE

\* text.startsWith("/")
IsSlash(text) == text # <<>> /\ Head(text) = "/"

\* Mutant of extractLoop: the assistant parts are not cleared after a turn
RECURSIVE extractLoopNoReset(_, _, _)
extractLoopNoReset(msgs, turns, assistantParts) ==
  IF msgs = <<>> THEN turns
  ELSE LET msg == Head(msgs)
       IN IF ~isMessageLike(msg) THEN extractLoopNoReset(Tail(msgs), turns, assistantParts)
          ELSE IF msg.role = "assistant"
          THEN LET text == extractAssistantText(msg.content)
               IN IF text # Undefined
                  THEN extractLoopNoReset(Tail(msgs), turns, Append(assistantParts, text))
                  ELSE extractLoopNoReset(Tail(msgs), turns, assistantParts)
          ELSE IF msg.role = "user"
          THEN LET text == extractTextContent(msg.content)
               IN IF text = Undefined \/ IsSlash(text)
                  THEN extractLoopNoReset(Tail(msgs), turns, assistantParts)
                  ELSE extractLoopNoReset(Tail(msgs),
                                          Append(turns, [user |-> text,
                                                         assistant |-> mergeAssistantParts(assistantParts)]),
                                          assistantParts)
          ELSE extractLoopNoReset(Tail(msgs), turns, assistantParts)

\* Mutant of extractLoop: a skipped user message clears the assistant parts
RECURSIVE extractLoopSkipResets(_, _, _)
extractLoopSkipResets(msgs, turns, assistantParts) ==
  IF msgs = <<>> THEN turns
  ELSE LET msg == Head(msgs)
       IN IF ~isMessageLike(msg) THEN extractLoopSkipResets(Tail(msgs), turns, assistantParts)
          ELSE IF msg.role = "assistant"
          THEN LET text == extractAssistantText(msg.content)
               IN IF text # Undefined
                  THEN extractLoopSkipResets(Tail(msgs), turns, Append(assistantParts, text))
                  ELSE extractLoopSkipResets(Tail(msgs), turns, assistantParts)
          ELSE IF msg.role = "user"
          THEN LET text == extractTextContent(msg.content)
               IN IF text = Undefined \/ IsSlash(text)
                  THEN extractLoopSkipResets(Tail(msgs), turns, <<>>)
                  ELSE extractLoopSkipResets(Tail(msgs),
                                             Append(turns, [user |-> text,
                                                            assistant |-> mergeAssistantParts(assistantParts)]),
                                             <<>>)
          ELSE extractLoopSkipResets(Tail(msgs), turns, assistantParts)

\* Mutant of extractLoop: the walk ends at an entry that is no message
RECURSIVE extractLoopStopsAtMalformed(_, _, _)
extractLoopStopsAtMalformed(msgs, turns, assistantParts) ==
  IF msgs = <<>> THEN turns
  ELSE LET msg == Head(msgs)
       IN IF ~isMessageLike(msg) THEN turns
          ELSE IF msg.role = "assistant"
          THEN LET text == extractAssistantText(msg.content)
               IN IF text # Undefined
                  THEN extractLoopStopsAtMalformed(Tail(msgs), turns, Append(assistantParts, text))
                  ELSE extractLoopStopsAtMalformed(Tail(msgs), turns, assistantParts)
          ELSE IF msg.role = "user"
          THEN LET text == extractTextContent(msg.content)
               IN IF text = Undefined \/ IsSlash(text)
                  THEN extractLoopStopsAtMalformed(Tail(msgs), turns, assistantParts)
                  ELSE extractLoopStopsAtMalformed(Tail(msgs),
                                                   Append(turns, [user |-> text,
                                                                  assistant |-> mergeAssistantParts(assistantParts)]),
                                                   <<>>)
          ELSE extractLoopStopsAtMalformed(Tail(msgs), turns, assistantParts)

RECURSIVE extractLoop(_, _, _)
extractLoop(msgs, turns, assistantParts) ==
  IF msgs = <<>> THEN turns
  ELSE LET msg == Head(msgs)
       IN IF ~isMessageLike(msg) THEN extractLoop(Tail(msgs), turns, assistantParts)
          ELSE IF msg.role = "assistant"
          THEN LET text == extractAssistantText(msg.content)
               IN IF text # Undefined
                  THEN extractLoop(Tail(msgs), turns, Append(assistantParts, text))
                  ELSE extractLoop(Tail(msgs), turns, assistantParts)
          ELSE IF msg.role = "user"
          THEN LET text == extractTextContent(msg.content)
               IN IF text = Undefined \/ IsSlash(text)
                  THEN extractLoop(Tail(msgs), turns, assistantParts)
                  ELSE extractLoop(Tail(msgs),
                                   Append(turns, [user |-> text,
                                                  assistant |-> mergeAssistantParts(assistantParts)]),
                                   <<>>)
          ELSE extractLoop(Tail(msgs), turns, assistantParts)

extractConversationTurns(historyMessages) == extractLoop(historyMessages, <<>>, <<>>)

----------------------------------------------------------------------------
(* Insertion-ordered maps (JavaScript Map): sequences of [key, val] *)

MapHas(m, k) == \E i \in 1..Len(m) : m[i].key = k

MapGet(m, k) == m[CHOOSE i \in 1..Len(m) : m[i].key = k].val

\* Mutant of MapSet: the entry is added without looking for the key
MapSetAppend(m, k, v) == Append(m, [key |-> k, val |-> v])

\* Map.prototype.set: an existing key keeps its position
MapSet(m, k, v) ==
  IF MapHas(m, k)
  THEN [i \in 1..Len(m) |-> IF m[i].key = k THEN [key |-> k, val |-> v] ELSE m[i]]
  ELSE Append(m, [key |-> k, val |-> v])

MapDelete(m, k) == LET keep(e) == e.key # k IN SelectSeq(m, keep)

MapKeys(m) == {m[i].key : i \in 1..Len(m)}

----------------------------------------------------------------------------
(* message-cache: the turn cache *)

CACHE_TTL_MS == 1800000
MAX_CACHE_SIZE == 100

\* Mutant of enforceSize: the newest entries go, the oldest stay
enforceSizeNewestFirst(m, max) == IF Len(m) > max THEN SubSeq(m, 1, max) ELSE m

\* while (cache.size > MAX_CACHE_SIZE): delete the oldest key, stop when the
\* oldest key is falsy (the empty string)
RECURSIVE enforceSize(_, _)
enforceSize(m, max) ==
  IF Len(m) > max /\ Head(m).key # <<>> THEN enforceSize(Tail(m), max) ELSE m

\* Mutant of pruneCache: expired entries go, the size is not enforced
pruneCacheExpiredOnly(m, t) ==
  SelectSeq(m, LAMBDA e : ~(t - e.val.updatedAt > CACHE_TTL_MS))

pruneCache(m, t) ==
  LET live(e) == ~(t - e.val.updatedAt > CACHE_TTL_MS)
  IN enforceSize(SelectSeq(m, live), MAX_CACHE_SIZE)

\* turns.slice(-maxTurns)
sliceLast(turns, maxTurns) ==
  IF maxTurns = 0 \/ maxTurns >= Len(turns) THEN turns
  ELSE SubSeq(turns, Len(turns) - maxTurns + 1, Len(turns))

\* The turn list updateCache stores; currentPrompt is a text or Undefined
updatedTurns(historyMessages, currentPrompt, maxTurns) ==
  LET turns == extractConversationTurns(historyMessages)
      cleanedPrompt == stripChannelMetadata(trim(currentPrompt))
      withPrompt ==
        IF currentPrompt # Undefined /\ currentPrompt # <<>> /\ trim(currentPrompt) # <<>>
           /\ ~IsSlash(currentPrompt)
           /\ cleanedPrompt # <<>> /\ ~IsSlash(cleanedPrompt)
        THEN Append(turns, [user |-> cleanedPrompt, assistant |-> Undefined])
        ELSE turns
  IN sliceLast(withPrompt, maxTurns)

\* updateCache: the cache after the call at time t
updateCache(m, sessionKey, historyMessages, currentPrompt, maxTurns, t) ==
  pruneCache(MapSet(m, sessionKey,
                    [turns |-> updatedTurns(historyMessages, currentPrompt, maxTurns),
                     updatedAt |-> t]), t)

\* Mutant of getRecentTurns: the age of the entry is not looked at
getRecentTurnsAnyAge(m, sessionKey, t) ==
  IF ~MapHas(m, sessionKey) THEN <<>> ELSE MapGet(m, sessionKey).turns

\* getRecentTurns: the turns returned, and the cache after the call
getRecentTurns(m, sessionKey, t) ==
  IF ~MapHas(m, sessionKey) THEN <<>>
  ELSE IF t - MapGet(m, sessionKey).updatedAt > CACHE_TTL_MS THEN <<>>
  ELSE MapGet(m, sessionKey).turns

cacheAfterGet(m, sessionKey, t) ==
  IF MapHas(m, sessionKey) /\ t - MapGet(m, sessionKey).updatedAt > CACHE_TTL_MS
  THEN MapDelete(m, sessionKey)
  ELSE m

----------------------------------------------------------------------------
(* index: the decision cache *)

DECISION_CACHE_TTL_MS == 5000
MAX_DECISION_CACHE_SIZE == 256

NoEntry == [action |-> "none"]

\* getCachedDecision: the entry returned (NoEntry for undefined), and the
\* cache after the call
getCachedDecision(dc, key, t) ==
  IF ~MapHas(dc, key) THEN NoEntry
  ELSE IF t - MapGet(dc, key).cachedAt > DECISION_CACHE_TTL_MS THEN NoEntry
  ELSE MapGet(dc, key)

\* Mutant of decisionCacheAfterGet: the lookup leaves a provisional entry
decisionCacheProvisional(dc, key, t) ==
  MapSet(dc, key, [action |-> "allow", reason |-> Undefined, cachedAt |-> t])

decisionCacheAfterGet(dc, key, t) ==
  IF MapHas(dc, key) /\ t - MapGet(dc, key).cachedAt > DECISION_CACHE_TTL_MS
  THEN MapDelete(dc, key)
  ELSE dc

\* Mutant of setCachedDecision: the entry is not stored
setCachedDecisionDropped(dc, key, action, reason, t) == dc

\* Mutant of setCachedDecision: only a verdict of the model is stored, not a
\* fallback decision
setCachedDecisionVerdictsOnly(dc, key, action, reason, t) ==
  IF Len(reason) > 0 /\ reason[Len(reason)] = makeFallbackDecision(action).reason[1] THEN dc
  ELSE enforceSize(MapSet(dc, key, [action |-> action, reason |-> reason, cachedAt |-> t]),
                   MAX_DECISION_CACHE_SIZE)

setCachedDecision(dc, key, action, reason, t) ==
  enforceSize(MapSet(dc, key, [action |-> action, reason |-> reason, cachedAt |-> t]),
              MAX_DECISION_CACHE_SIZE)

----------------------------------------------------------------------------
(* guardian-client: callGuardian *)

\* What the awaited provider call (fetch / completeSimple) does:
\*   [kind |-> "reject", msg]     it throws: a network error, an abort
\*   [kind |-> "http"]            fetch client only: a non-success status
\*   [kind |-> "body", blocks]    a response carrying content blocks
ABORT_MSG == "The operation was aborted"

\* Mutant of includesAbort: no error is taken for an abort
includesAbortNever(msg) == FALSE

\* errMsg.includes("abort")
includesAbort(msg) == msg \in {ABORT_MSG, "Request aborted by proxy"}

RECURSIVE trimmedTexts(_)
trimmedTexts(blocks) ==
  IF blocks = <<>> THEN <<>>
  ELSE IF IsTextBlock(Head(blocks)) /\ trim(Head(blocks).text) # <<>>
       THEN <<trim(Head(blocks).text)>> \o trimmedTexts(Tail(blocks))
       ELSE trimmedTexts(Tail(blocks))

\* The response text the client hands to the parser.  sdk: every text block,
\* trimmed, empty ones dropped, joined by a blank.  fetch: the text of the
\* first element only.
responseContent(client, blocks) ==
  IF client = "sdk" THEN trim(join(trimmedTexts(blocks), SP))
  ELSE IF blocks = <<>> \/ ~IsTextBlock(Head(blocks)) THEN <<>>
  ELSE trim(Head(blocks).text)

withReason(fallback, prefix) ==
  [action |-> fallback.action, reason |-> <<prefix>> \o fallback.reason]

\* The body of callGuardian's try block: a decision, or a thrown error
callProvider(client, outcome, fallback) ==
  IF outcome.kind = "reject" THEN [kind |-> "throw", msg |-> outcome.msg]
  ELSE IF outcome.kind = "http"
  THEN [kind |-> "return",
        decision |-> withReason(fallback, "Guardian API returned HTTP <status>: ")]
  ELSE LET content == responseContent(client, outcome.blocks)
       IN IF content = <<>>
          THEN [kind |-> "return",
                decision |-> withReason(fallback, "Guardian returned empty response: ")]
          ELSE [kind |-> "return",
                decision |-> parseGuardianResponse(client, content, fallback)]

\* Mutant of callGuardian: the catch block is missing
callGuardianNoCatch(client, outcome, fallbackOnError) ==
  callProvider(client, outcome, makeFallbackDecision(fallbackOnError))

\* callGuardian: try / catch / finally around the provider call
callGuardian(client, outcome, fallbackOnError) ==
  LET fallback == makeFallbackDecision(fallbackOnError)
      tried == callProvider(client, outcome, fallback)
  IN IF tried.kind = "return" THEN tried
     ELSE IF includesAbort(tried.msg)
     THEN [kind |-> "return",
           decision |-> withReason(fallback, "Guardian timed out after <timeoutMs>ms: ")]
     ELSE [kind |-> "return",
           decision |-> withReason(fallback, "Guardian error: <errMsg>: ")]

\* Mutant of timerAfterCall: clearTimeout at the end of the try block only
timerClearedInTry(client, outcome, timer) ==
  IF callProvider(client, outcome, makeFallbackDecision("allow")).kind = "return"
  THEN "cleared" ELSE timer

\* finally { clearTimeout(timeoutId) }: the timer once callGuardian has returned
timerAfterCall(client, outcome, timer) == "cleared"

----------------------------------------------------------------------------
(* index: reviewToolCall *)

UNKNOWN == <<"unknown">>

lowerName(name) == [i \in 1..Len(name) |-> toLowerCase(name[i])]

cacheKeyOf(sessionKey, toolNameLower) == sessionKey \o <<COLON>> \o toolNameLower

sessionKeyOf(ctxKey) == IF ctxKey = Undefined THEN UNKNOWN ELSE ctxKey

NoOp == [block |-> FALSE]
Block(reason) == [block |-> TRUE, blockReason |-> <<"Guardian: ">> \o reason]

NoDecision == [action |-> "none"]
Unread == <<"unread">>

\* reason || dflt
orDefault(reason, dflt) == IF reason = Undefined \/ reason = <<>> THEN <<dflt>> ELSE reason

\* Mutant of cachedResult: a cached block is honoured in every mode
cachedResultAnyMode(cfg, cached) ==
  IF cached.action = "block"
  THEN Block(orDefault(cached.reason, "blocked (cached)"))
  ELSE NoOp

\* step 2: the result on a decision-cache hit
cachedResult(cfg, cached) ==
  IF cached.action = "block" /\ cfg.mode = "enforce"
  THEN Block(orDefault(cached.reason, "blocked (cached)"))
  ELSE NoOp

\* step 3: the result when there is no session context
noContextResult(cfg) ==
  IF cfg.fallback_on_error = "block" /\ cfg.mode = "enforce"
  THEN Block(<<"no session context available">>)
  ELSE NoOp

\* Mutant of finalResult: a fresh block verdict is only logged
finalResultLogOnly(cfg, decision) == NoOp

\* step 8: the result of a fresh decision
finalResult(cfg, decision) ==
  IF decision.action = "block" /\ cfg.mode = "enforce"
  THEN Block(orDefault(decision.reason, "blocked"))
  ELSE NoOp

Outcome(pc, path, turns, decision, result, dc, tc) ==
  [pc |-> pc, path |-> path, turns |-> turns, decision |-> decision,
   result |-> result, dc |-> dc, tc |-> tc]

\* steps 3 and 4 up to the model call: the turn cache is read, then the
\* no-context fallback or the review proper
reviewUncached(cfg, dc, tc, t, sessionKey, args) ==
  LET turns == getRecentTurns(tc, sessionKey, t)
      tc1 == cacheAfterGet(tc, sessionKey, t)
  IN IF Len(turns) = 0 /\ sessionKey = UNKNOWN
     THEN Outcome("done", "no-context", turns, NoDecision, noContextResult(cfg), dc, tc1)
     ELSE IF cfg.log_decisions /\ args = "circular"
     THEN Outcome("threw", "reviewed", turns, NoDecision, NoOp, dc, tc1)
     ELSE Outcome("awaiting", "reviewed", turns, NoDecision, NoOp, dc, tc1)

\* Mutant of reviewWatched: the no-context check comes before the cache lookup
reviewWatchedContextFirst(cfg, dc, tc, t, toolName, ctxKey, args) ==
  LET sessionKey == sessionKeyOf(ctxKey)
      key == cacheKeyOf(sessionKey, lowerName(toolName))
      cached == getCachedDecision(dc, key, t)
      u == reviewUncached(cfg, decisionCacheAfterGet(dc, key, t), tc, t, sessionKey, args)
  IN IF u.path = "no-context" \/ cached.action = "none" THEN u
     ELSE Outcome("done", "cache-hit", u.turns,
                  [action |-> cached.action, reason |-> cached.reason],
                  cachedResult(cfg, cached), u.dc, u.tc)

\* steps 2 to 4 up to the model call, for a watched tool
reviewWatched(cfg, dc, tc, t, toolName, ctxKey, args) ==
  LET sessionKey == sessionKeyOf(ctxKey)
      key == cacheKeyOf(sessionKey, lowerName(toolName))
      cached == getCachedDecision(dc, key, t)
      dc1 == decisionCacheAfterGet(dc, key, t)
  IN IF cached.action # "none"
     THEN Outcome("done", "cache-hit", Unread,
                  [action |-> cached.action, reason |-> cached.reason],
                  cachedResult(cfg, cached), dc1, tc)
     ELSE reviewUncached(cfg, dc1, tc, t, sessionKey, args)

\* Mutant of reviewSync: every tool is reviewed
reviewSyncAllWatched(cfg, dc, tc, t, toolName, ctxKey, args) ==
  reviewWatched(cfg, dc, tc, t, toolName, ctxKey, args)

\* reviewToolCall up to its first suspension or return, at time t, on the
\* decision cache dc and the turn cache tc
reviewSync(cfg, dc, tc, t, toolName, ctxKey, args) ==
  IF lowerName(toolName) \notin cfg.watched
  THEN Outcome("done", "unwatched", Unread, NoDecision, NoOp, dc, tc)
  ELSE reviewWatched(cfg, dc, tc, t, toolName, ctxKey, args)

\* reviewToolCall after callGuardian has settled with `called`, at time t
reviewResume(cfg, dc, t, toolName, ctxKey, called) ==
  LET key == cacheKeyOf(sessionKeyOf(ctxKey), lowerName(toolName))
  IN IF called.kind = "throw"
     THEN [pc |-> "threw", decision |-> NoDecision, result |-> NoOp, dc |-> dc]
     ELSE [pc |-> "done", decision |-> called.decision,
           result |-> finalResult(cfg, called.decision),
           dc |-> setCachedDecision(dc, key, called.decision.action,
                                    called.decision.reason, t)]

----------------------------------------------------------------------------
(* The plugin as a state machine *)

VARIABLES
  config,         \* the resolved GuardianConfig
  client,         \* which guardian-client source serves callGuardian
  now,            \* Date.now()
  cache,          \* message-cache: sessionKey -> [turns, updatedAt]
  decisionCache,  \* index: cacheKey -> [action, reason, cachedAt]
  rev,            \* the reviewToolCall invocations
  inputs,         \* llm_input events so far
  probe,          \* a single call of a pure function: its input and its output
  resolutionAttempted,  \* the flag of ensureProviderResolved
  resolvedModel,  \* which of baseUrl and apiKey the guardian model has
  hooks           \* the before_tool_call invocations up to reviewToolCall

vars == <<config, client, now, cache, decisionCache, rev, inputs, probe,
          resolutionAttempted, resolvedModel, hooks>>

\* before_tool_call invocations
MaxHookCalls == 2
HookCalls == 1..MaxHookCalls

NoModel == [baseUrl |-> FALSE, apiKey |-> FALSE]
FullModel == [baseUrl |-> TRUE, apiKey |-> TRUE]

IdleHook ==
  [pc |-> "idle", toolName |-> <<>>, path |-> "none", result |-> [block |-> FALSE],
   model |-> NoModel, askedInfo |-> FALSE, askedKey |-> FALSE]

\* the provider has been resolved in full and no invocation is under way
ProviderSettled ==
  /\ resolutionAttempted = TRUE
  /\ resolvedModel = FullModel
  /\ hooks = [i \in HookCalls |-> IdleHook]

Reviews == 1..MaxReviews

TimeoutMs == 5000
Ticks == {5000, 5001}

ToolNames == {<<"exec">>, <<"Exec">>, <<"read">>}
WatchedTools == {<<"exec">>}
CtxKeys == {Undefined, <<"s1">>}
InputKeys == {<<"s1">>, UNKNOWN}
ArgValues == {"a1", "circular"}

Configs ==
  [mode : {"enforce", "audit"}, fallback_on_error : {"allow", "block"},
   log_decisions : {TRUE}, timeout_ms : {TimeoutMs}, max_user_messages : {3},
   watched : {WatchedTools}]

StringContent(text) == [kind |-> "string", text |-> text]
Msg(role, text) == [shape |-> "message", role |-> role, content |-> StringContent(text)]

\* llm_input events: a history and a current prompt
InputEvents ==
  { [historyMessages |-> <<Msg("user", <<"hi">>)>>, prompt |-> <<"p1">>],
    [historyMessages |-> <<>>, prompt |-> <<"/", "new">>] }

TextBlock(text) == [type |-> "text", text |-> text]

\* What the model may answer to a review
ReviewOutcomes ==
  { [kind |-> "body", blocks |-> <<TextBlock(<<"ALLOW">>)>>],
    [kind |-> "body", blocks |-> <<TextBlock(<<"BLOCK", COLON, SP, "r1">>)>>],
    [kind |-> "reject", msg |-> "ECONNREFUSED"],
    [kind |-> "body", blocks |-> <<>>],
    [kind |-> "body", blocks |-> <<TextBlock(<<"w1">>)>>] }

IdleReview ==
  [pc |-> "idle", toolName |-> <<>>, ctxKey |-> Undefined, args |-> "none",
   path |-> "none", turns |-> Unread, decision |-> NoDecision, result |-> NoOp,
   startedAt |-> 0, timer |-> "none"]

NoProbe == [op |-> "none"]

Init ==
  /\ ProviderSettled
  /\ config \in Configs
  /\ client = "sdk"
  /\ now = 0
  /\ cache = <<>>
  /\ decisionCache = <<>>
  /\ rev = [r \in Reviews |-> IdleReview]
  /\ inputs = 0
  /\ probe = NoProbe

\* llm_input hook
LlmInput(sessionKey, event) ==
  /\ cache' = IF sessionKey = Undefined THEN cache
              ELSE updateCache(cache, sessionKey, event.historyMessages, event.prompt,
                               config.max_user_messages, now)
  /\ inputs < MaxInputs
  /\ inputs' = inputs + 1
  /\ UNCHANGED <<resolutionAttempted, resolvedModel, hooks, config, client, now, decisionCache, rev, probe>>

\* reviewToolCall is entered and runs to its first suspension or return
ReviewToolCall(r, toolName, ctxKey, args) ==
  /\ rev[r].pc = "idle"
  /\ IF r = 1 THEN TRUE ELSE rev[r - 1].pc # "idle"
  /\ LET o == reviewSync(config, decisionCache, cache, now, toolName, ctxKey, args)
     IN /\ rev' = [rev EXCEPT ![r] =
                     [pc |-> o.pc, toolName |-> toolName, ctxKey |-> ctxKey,
                      args |-> args, path |-> o.path, turns |-> o.turns,
                      decision |-> o.decision, result |-> o.result,
                      startedAt |-> IF o.pc = "awaiting" THEN now ELSE 0,
                      timer |-> IF o.pc = "awaiting" THEN "pending" ELSE "none"]]
        /\ decisionCache' = o.dc
        /\ cache' = o.tc
  /\ UNCHANGED <<resolutionAttempted, resolvedModel, hooks, config, client, now, inputs, probe>>

\* callGuardian settles and reviewToolCall runs to its end
Resume(r, outcome) ==
  LET called == callGuardian(client, outcome, config.fallback_on_error)
      o == reviewResume(config, decisionCache, now, rev[r].toolName, rev[r].ctxKey, called)
  IN /\ rev' = [rev EXCEPT ![r].pc = o.pc, ![r].decision = o.decision,
                           ![r].result = o.result,
                           ![r].timer = timerAfterCall(client, outcome, rev[r].timer),
                           ![r].startedAt = 0]
     /\ decisionCache' = o.dc
     /\ UNCHANGED <<resolutionAttempted, resolvedModel, hooks, config, client, now, cache, inputs, probe>>

\* the provider call settles before the timeout timer has fired
ModelSettles(r, outcome) ==
  /\ rev[r].pc = "awaiting"
  /\ rev[r].timer = "pending"
  /\ Resume(r, outcome)

\* Mutant of TimerFires: the timer is never started
TimerNeverFires(r) == FALSE /\ UNCHANGED vars

\* setTimeout(() => controller.abort(), timeoutMs)
TimerFires(r) ==
  /\ rev[r].pc = "awaiting"
  /\ rev[r].timer = "pending"
  /\ now - rev[r].startedAt >= config.timeout_ms
  /\ rev' = [rev EXCEPT ![r].timer = "fired"]
  /\ UNCHANGED <<resolutionAttempted, resolvedModel, hooks, config, client, now, cache, decisionCache, inputs, probe>>

\* the aborted provider call rejects
AbortSettles(r) ==
  /\ rev[r].pc = "awaiting"
  /\ rev[r].timer = "fired"
  /\ Resume(r, [kind |-> "reject", msg |-> ABORT_MSG])

Tick(d) ==
  /\ now + d <= MaxNow
  /\ now' = now + d
  /\ UNCHANGED <<resolutionAttempted, resolvedModel, hooks, config, client, cache, decisionCache, rev, inputs, probe>>

\* decisionCache.clear()
ClearDecisionCache ==
  /\ decisionCache # <<>>
  /\ decisionCache' = <<>>
  /\ UNCHANGED <<resolutionAttempted, resolvedModel, hooks, config, client, now, cache, rev, inputs, probe>>

\* clearCache()
ClearCache ==
  /\ cache # <<>>
  /\ cache' = <<>>
  /\ UNCHANGED <<resolutionAttempted, resolvedModel, hooks, config, client, now, decisionCache, rev, inputs, probe>>

Next ==
  \/ \E k \in InputKeys, e \in InputEvents : LlmInput(k, e)
  \/ \E r \in Reviews, tn \in ToolNames, k \in CtxKeys, a \in ArgValues :
       ReviewToolCall(r, tn, k, a)
  \/ \E r \in Reviews, o \in ReviewOutcomes : ModelSettles(r, o)
  \/ \E r \in Reviews : TimerFires(r)
  \/ \E r \in Reviews : AbortSettles(r)
  \/ \E d \in Ticks : Tick(d)
  \/ ClearDecisionCache
  \/ ClearCache

Spec == Init /\ [][Next]_vars

----------------------------------------------------------------------------
(* The guardian client on its own: one call of parseGuardianResponse or of *)
(* callGuardian, on every input within the bounds                          *)

ProbeLines ==
  { <<>>,
    <<SP>>,
    <<"ALLOW">>,
    <<"allow", COLON, SP, "r1">>,
    <<"BLOCK", SP, "r2", COLON, "r1">>,
    <<"Block">>,
    <<"BLOCKED", SP, "r2">>,
    <<"w1", SP, "ALLOW">>,
    <<SP, "BLOCK", COLON>> }

\* Every text of 1..MaxLines lines
ProbeTexts ==
  { join(ls, NL) : ls \in UNION { [1..k -> ProbeLines] : k \in 1..MaxLines } }

ProbeBlocks ==
  { <<>>,
    <<[type |-> "toolCall", text |-> <<>>]>>,
    <<TextBlock(<<>>)>>,
    <<TextBlock(<<SP, NL, SP>>)>>,
    <<TextBlock(<<"ALLOW">>)>>,
    <<TextBlock(<<NL, NL, "BLOCK", COLON, SP, "r1", NL, "w1">>)>>,
    <<TextBlock(<<"w1", SP, "w2">>)>>,
    <<TextBlock(<<"w1", NL, "BLOCK", COLON, SP, "r1">>)>>,
    <<TextBlock(<<"BLOCK", COLON, SP, "r1">>), TextBlock(<<"ALLOW", COLON, SP, "r2">>)>>,
    <<[type |-> "thinking", text |-> <<"BLOCK">>], TextBlock(<<"ALLOW">>)>> }

ClientOutcomes ==
  { [kind |-> "reject", msg |-> m] : m \in {"ECONNREFUSED", ABORT_MSG, "Request aborted by proxy"} }
  \cup { [kind |-> "http"] }
  \cup { [kind |-> "body", blocks |-> b] : b \in ProbeBlocks }

ParseProbes ==
  { [op |-> "parseGuardianResponse", client |-> c, content |-> t,
     fallbackOnError |-> f, out |-> NoDecision] :
      c \in Clients, t \in ProbeTexts, f \in {"allow", "block"} }

\* a non-success HTTP status reaches callGuardian in the fetch client only
CallProbes ==
  { p \in { [op |-> "callGuardian", client |-> c, outcome |-> o,
             fallbackOnError |-> f, out |-> [kind |-> "pending"],
             timer |-> IF o = [kind |-> "reject", msg |-> ABORT_MSG]
                       THEN "fired" ELSE "pending"] :
               c \in Clients, o \in ClientOutcomes, f \in {"allow", "block"} } :
      p.outcome.kind = "http" => p.client = "fetch" }

InitClient ==
  /\ ProviderSettled
  /\ probe \in ParseProbes \cup CallProbes
  /\ config \in Configs
  /\ config.mode = "enforce" /\ config.fallback_on_error = probe.fallbackOnError
  /\ client = probe.client
  /\ now = 0
  /\ cache = <<>>
  /\ decisionCache = <<>>
  /\ rev = [r \in Reviews |-> IdleReview]
  /\ inputs = 0

ParseStep ==
  /\ probe.op = "parseGuardianResponse"
  /\ probe.out = NoDecision
  /\ probe' = [probe EXCEPT !.out =
                 parseGuardianResponse(probe.client, probe.content,
                                       makeFallbackDecision(probe.fallbackOnError))]
  /\ UNCHANGED <<resolutionAttempted, resolvedModel, hooks, config, client, now, cache, decisionCache, rev, inputs>>

CallStep ==
  /\ probe.op = "callGuardian"
  /\ probe.out.kind = "pending"
  /\ probe' = [probe EXCEPT
                 !.out = callGuardian(probe.client, probe.outcome, probe.fallbackOnError),
                 !.timer = timerAfterCall(probe.client, probe.outcome, probe.timer)]
  /\ UNCHANGED <<resolutionAttempted, resolvedModel, hooks, config, client, now, cache, decisionCache, rev, inputs>>

NextClient == ParseStep \/ CallStep

SpecClient == InitClient /\ [][NextClient]_vars

----------------------------------------------------------------------------
(* The turn cache on its own: a few updateCache, getRecentTurns and clearCache *)
(* calls, with the clock advancing, on an empty, a small and a full cache     *)

Key(i) == <<"k", ToString(i)>>

UserTurn(text) == [user |-> text, assistant |-> Undefined]

\* the cache after updateCache for sessions 1..n in this order at time 0
FilledCache(n) ==
  [i \in 1..n |-> [key |-> Key(i),
                   val |-> [turns |-> <<UserTurn(<<"hi">>)>>, updatedAt |-> 0]]]

CacheSizes == {0, 2, MAX_CACHE_SIZE}

CacheKeys == {Key(1), Key(2), Key(MAX_CACHE_SIZE + 1)}

CacheEvents ==
  { [historyMessages |-> <<Msg("user", <<"hi">>), Msg("assistant", <<"yo">>),
                           Msg("user", <<"q2">>)>>,
     prompt |-> <<"p1">>],
    [historyMessages |-> <<>>, prompt |-> <<"/", "new">>],
    [historyMessages |-> <<Msg("user", <<"hi">>)>>,
     prompt |-> <<SP, LABEL, SP, FENCE, "m1", FENCE, NL, "p2">>] }

CacheMaxTurns == {0, 2}

CacheTicks == {1, CACHE_TTL_MS}

InitCache ==
  /\ ProviderSettled
  /\ cache \in {FilledCache(n) : n \in CacheSizes}
  /\ now = 0
  /\ inputs = 0
  /\ probe = NoProbe
  /\ config \in Configs
  /\ config.mode = "enforce" /\ config.fallback_on_error = "allow"
  /\ client = "sdk"
  /\ decisionCache = <<>>
  /\ rev = [r \in Reviews |-> IdleReview]

UpdateCacheOp(sessionKey, event, maxTurns) ==
  /\ inputs < MaxCacheOps
  /\ inputs' = inputs + 1
  /\ cache' = updateCache(cache, sessionKey, event.historyMessages, event.prompt,
                          maxTurns, now)
  /\ probe' = [op |-> "updateCache", key |-> sessionKey,
               historyMessages |-> event.historyMessages, prompt |-> event.prompt,
               maxTurns |-> maxTurns,
               repeated |-> /\ probe.op = "updateCache"
                            /\ probe.key = sessionKey
                            /\ probe.historyMessages = event.historyMessages
                            /\ probe.prompt = event.prompt
                            /\ probe.maxTurns = maxTurns]
  /\ UNCHANGED <<resolutionAttempted, resolvedModel, hooks, config, client, now, decisionCache, rev>>

GetRecentTurnsOp(sessionKey) ==
  /\ inputs < MaxCacheOps
  /\ inputs' = inputs + 1
  /\ cache' = cacheAfterGet(cache, sessionKey, now)
  /\ probe' = [op |-> "getRecentTurns", key |-> sessionKey,
               turns |-> getRecentTurns(cache, sessionKey, now)]
  /\ UNCHANGED <<resolutionAttempted, resolvedModel, hooks, config, client, now, decisionCache, rev>>

ClearCacheOp ==
  /\ inputs < MaxCacheOps
  /\ inputs' = inputs + 1
  /\ cache # <<>>
  /\ cache' = <<>>
  /\ probe' = [op |-> "clearCache"]
  /\ UNCHANGED <<resolutionAttempted, resolvedModel, hooks, config, client, now, decisionCache, rev>>

AdvanceClock(d) ==
  /\ inputs < MaxCacheOps
  /\ inputs' = inputs + 1
  /\ now' = now + d
  /\ probe' = [op |-> "tick"]
  /\ UNCHANGED <<resolutionAttempted, resolvedModel, hooks, config, client, cache, decisionCache, rev>>

NextCache ==
  \/ \E k \in CacheKeys, e \in CacheEvents, n \in CacheMaxTurns : UpdateCacheOp(k, e, n)
  \/ \E k \in CacheKeys : GetRecentTurnsOp(k)
  \/ ClearCacheOp
  \/ \E d \in CacheTicks : AdvanceClock(d)

SpecCache == InitCache /\ [][NextCache]_vars

----------------------------------------------------------------------------
(* Claims about the guardian client *)

\* The lines of a text that begin, once trimmed, with ALLOW or BLOCK
VerdictLines(content) ==
  {i \in 1..Len(split(content)) : IsVerdictLine(trim(split(content)[i]))}

FirstOf(S) == CHOOSE i \in S : \A j \in S : i <= j

\* C4: for every response text the decision is the verdict of the first line
\* that begins with ALLOW or BLOCK (any case), blank and other lines before it
\* being skipped and every line after it ignored.
C4_FirstVerdictLineDecides ==
  (probe.op = "parseGuardianResponse" /\ probe.out # NoDecision
   /\ VerdictLines(probe.content) # {})
    => probe.out = verdictOfLine(trim(split(probe.content)[FirstOf(VerdictLines(probe.content))]))

\* The same for the completeSimple-based client alone, where it holds
C4_ScanClientOnly == probe.client = "sdk" => C4_FirstVerdictLineDecides

\* the response carries no text, or blank text only
NoText(blocks) ==
  \A i \in 1..Len(blocks) : IsTextBlock(blocks[i]) => trim(blocks[i].text) = <<>>

\* no line of any text block begins with ALLOW or BLOCK
NoVerdict(blocks) ==
  \A i \in 1..Len(blocks) : IsTextBlock(blocks[i]) => VerdictLines(blocks[i].text) = {}

FailedCall(outcome) ==
  \/ outcome.kind \in {"reject", "http"}
  \/ outcome.kind = "body" /\ (NoText(outcome.blocks) \/ NoVerdict(outcome.blocks))

\* C10: callGuardian always returns a decision, never throws, and on a
\* rejected or aborted call, a non-success status, an empty or blank response
\* or a response without a verdict the action is the configured fallbackOnError.
C10_CallGuardianNeverThrows ==
  (probe.op = "callGuardian" /\ probe.out.kind # "pending")
    => /\ probe.out.kind = "return"
       /\ probe.out.decision.action \in {"allow", "block"}
       /\ FailedCall(probe.outcome) => probe.out.decision.action = probe.fallbackOnError

C10_Witness ==
  /\ probe.op = "callGuardian"
  /\ probe.outcome.kind = "reject"
  /\ probe.fallbackOnError = "block"
  /\ probe.out.kind = "return"
  /\ probe.out.decision.action = "block"

----------------------------------------------------------------------------
(* Claims about reviewToolCall *)

KeyOf(rec) == cacheKeyOf(sessionKeyOf(rec.ctxKey), lowerName(rec.toolName))

Watched(rec) == lowerName(rec.toolName) \in config.watched

\* review r is entered in this step
Enters(r) == rev[r].pc = "idle" /\ rev'[r].pc # "idle"

\* the model call of review r settles in this step
Settles(r) == rev[r].pc = "awaiting" /\ rev'[r].pc # "awaiting"

\* the review has reached callGuardian
ModelCalled(rec) == rec.timer # "none"

\* the decision-cache entries of a key that are within the TTL now
LiveEntries(key) ==
  { i \in 1..Len(decisionCache) :
      /\ decisionCache[i].key = key
      /\ now - decisionCache[i].val.cachedAt <= DECISION_CACHE_TTL_MS }

HasLive(key) == LiveEntries(key) # {}

LiveEntry(key) == decisionCache[CHOOSE i \in LiveEntries(key) : TRUE].val

\* no turns are to be had from the turn cache for a session key now
NoTurns(sessionKey) ==
  \A i \in 1..Len(cache) :
    cache[i].key = sessionKey
      => cache[i].val.turns = <<>> \/ now - cache[i].val.updatedAt > CACHE_TTL_MS

BlockWith(reason) == [block |-> TRUE, blockReason |-> <<"Guardian: ">> \o reason]

Allowed == [block |-> FALSE]

\* C1: under enforce a finished review of a watched tool whose verdict, fresh
\* or cached, is block returns a block result whose reason is the verdict's
\* reason after "Guardian: ", and one whose verdict is allow returns no-op.
C1_EnforceHonoursVerdict ==
  config.mode = "enforce" =>
    \A r \in Reviews :
      (rev[r].pc = "done" /\ rev[r].path \in {"cache-hit", "reviewed"}) =>
        /\ rev[r].decision.action = "block" => rev[r].result = BlockWith(rev[r].decision.reason)
        /\ rev[r].decision.action = "allow" => rev[r].result = Allowed

C1_Witness ==
  /\ config.mode = "enforce"
  /\ rev[1].pc = "done" /\ rev[1].path = "reviewed"
  /\ rev[1].decision.action = "block" /\ rev[1].result.block
  /\ rev[2].pc = "done" /\ rev[2].path = "cache-hit"
  /\ rev[2].decision.action = "block" /\ rev[2].result.block

\* C2: under audit no finished review returns a block result, whether its
\* block verdict is fresh, cached, or the no-context fallback.
C2_AuditNeverBlocks ==
  config.mode = "audit" =>
    \A r \in Reviews : rev[r].pc = "done" => rev[r].result = Allowed

C2_Witness ==
  /\ config.mode = "audit"
  /\ config.fallback_on_error = "block"
  /\ rev[1].pc = "done" /\ rev[1].path = "reviewed" /\ rev[1].decision.action = "block"
  /\ rev[2].pc = "done" /\ rev[2].path = "cache-hit" /\ rev[2].decision.action = "block"

\* C3: a review of a tool whose lowercased name is not watched returns no-op
\* at once, calls no model, reads no turns and leaves both caches as they were.
C3_UnwatchedUntouched ==
  [][\A r \in Reviews :
       (Enters(r) /\ ~Watched(rev'[r])) =>
         /\ rev'[r].pc = "done"
         /\ rev'[r].path = "unwatched"
         /\ rev'[r].result = Allowed
         /\ ~ModelCalled(rev'[r])
         /\ rev'[r].turns = Unread
         /\ decisionCache' = decisionCache
         /\ cache' = cache]_vars

C3_Witness ==
  /\ rev[2].pc = "done" /\ rev[2].path = "unwatched"
  /\ rev[2].ctxKey = <<"s1">>
  /\ cache # <<>>
  /\ \E i \in 1..Len(decisionCache) :
       now - decisionCache[i].val.cachedAt > DECISION_CACHE_TTL_MS

\* C5: a settled review stores its verdict under (session, tool) at the time
\* it settles; a later review of the same pair entered while that entry is
\* within the TTL reuses it without a model call, whatever its arguments; one
\* entered when no entry is within the TTL goes on to the review proper.
C5_ReuseWithinTTL ==
  [][\A r \in Reviews :
       /\ (Enters(r) /\ Watched(rev'[r]) /\ HasLive(KeyOf(rev'[r]))) =>
            /\ rev'[r].pc = "done"
            /\ rev'[r].path = "cache-hit"
            /\ ~ModelCalled(rev'[r])
            /\ rev'[r].decision = [action |-> LiveEntry(KeyOf(rev'[r])).action,
                                   reason |-> LiveEntry(KeyOf(rev'[r])).reason]
       /\ (Enters(r) /\ Watched(rev'[r]) /\ ~HasLive(KeyOf(rev'[r]))
           /\ ~(sessionKeyOf(rev'[r].ctxKey) = UNKNOWN /\ NoTurns(UNKNOWN))) =>
            /\ rev'[r].path = "reviewed"
            /\ ModelCalled(rev'[r]) \/ rev'[r].args = "circular"
       /\ (Settles(r) /\ rev'[r].pc = "done") =>
            \E i \in 1..Len(decisionCache') :
              /\ decisionCache'[i].key = KeyOf(rev[r])
              /\ decisionCache'[i].val = [action |-> rev'[r].decision.action,
                                          reason |-> rev'[r].decision.reason,
                                          cachedAt |-> now]]_vars

C5_Witness ==
  /\ rev[1].pc = "done" /\ rev[1].path = "reviewed" /\ ModelCalled(rev[1])
  /\ rev[2].pc = "done" /\ rev[2].path = "cache-hit" /\ ~ModelCalled(rev[2])
  /\ KeyOf(rev[1]) = KeyOf(rev[2])
  /\ rev[1].args # rev[2].args
  /\ rev[1].toolName # rev[2].toolName
  /\ rev[2].decision = rev[1].decision

\* C6: no two reviews of one (session, tool) entered within one decision-cache
\* TTL of each other are both at the model call.
C6_OneModelCallPerTool ==
  \A r1, r2 \in Reviews :
    (r1 < r2 /\ KeyOf(rev[r1]) = KeyOf(rev[r2])
     /\ rev[r1].pc = "awaiting" /\ rev[r2].pc = "awaiting"
     /\ rev[r2].startedAt - rev[r1].startedAt <= DECISION_CACHE_TTL_MS)
      => FALSE

\* the turn cache of the review's session holds the prompt of an input cycle
\* later than a decision cached for the review's key
UpdatedSinceCached(rec) ==
  /\ HasLive(KeyOf(rec))
  /\ \E i \in 1..Len(cache) :
       /\ cache[i].key = sessionKeyOf(rec.ctxKey)
       /\ cache[i].val.updatedAt > LiveEntry(KeyOf(rec)).cachedAt
       /\ cache[i].val.turns # <<>>
       /\ cache[i].val.turns[Len(cache[i].val.turns)].user = <<"p1">>

\* C7: a review entered after an input cycle has updated the session's turn
\* cache does not reuse a decision cached before that update.
C7_NoReuseAfterTurnUpdate ==
  [][\A r \in Reviews :
       (Enters(r) /\ Watched(rev'[r]) /\ UpdatedSinceCached(rev'[r]))
         => rev'[r].path # "cache-hit"]_vars

\* C8: a review of a watched tool entered without a session key while no
\* turns are cached under "unknown" calls no model, adds nothing to the
\* decision cache, and blocks exactly when the fallback is block under enforce.
C8_NoContextFallback ==
  [][\A r \in Reviews :
       (Enters(r) /\ Watched(rev'[r]) /\ rev'[r].ctxKey = Undefined /\ NoTurns(UNKNOWN)) =>
         /\ ~ModelCalled(rev'[r])
         /\ \A i \in 1..Len(decisionCache') :
              \E j \in 1..Len(decisionCache) : decisionCache'[i] = decisionCache[j]
         /\ rev'[r].result =
              IF config.fallback_on_error = "block" /\ config.mode = "enforce"
              THEN BlockWith(<<"no session context available">>)
              ELSE Allowed]_vars

\* the check that decides a review entered now
DecidingCheck(rec) ==
  IF ~Watched(rec) THEN "unwatched"
  ELSE IF HasLive(KeyOf(rec)) THEN "cache-hit"
  ELSE IF sessionKeyOf(rec.ctxKey) = UNKNOWN /\ NoTurns(UNKNOWN) THEN "no-context"
  ELSE "reviewed"

\* C9: a review is decided by the first that applies of unwatched, live
\* decision-cache entry, no session context, review proper; on a cache hit
\* the turn cache is neither read nor changed and the cached verdict is the
\* result; the model is called on the last path only.
C9_FixedOrder ==
  [][\A r \in Reviews :
       Enters(r) =>
         /\ rev'[r].path = DecidingCheck(rev'[r])
         /\ rev'[r].path = "cache-hit" =>
              /\ rev'[r].turns = Unread
              /\ cache' = cache
              /\ rev'[r].result =
                   IF LiveEntry(KeyOf(rev'[r])).action = "block" /\ config.mode = "enforce"
                   THEN BlockWith(LiveEntry(KeyOf(rev'[r])).reason)
                   ELSE Allowed
         /\ ModelCalled(rev'[r]) => rev'[r].path = "reviewed"]_vars

C9_Witness ==
  /\ config.mode = "enforce" /\ config.fallback_on_error = "allow"
  /\ rev[2].pc = "done" /\ rev[2].path = "cache-hit"
  /\ rev[2].ctxKey = Undefined
  /\ rev[2].result.block
  /\ cache = <<>>

----------------------------------------------------------------------------
(* Claims about failure, timeout and the order of cache writes *)

\* C11: no review ends by throwing: every review settles with a result.
C11_NoReviewThrows == \A r \in Reviews : rev[r].pc # "threw"

\* the reason given for a timeout
ContainsTimedOut(reason) ==
  \E i \in 1..Len(reason) : reason[i] = "Guardian timed out after <timeoutMs>ms: "

\* C12: the timer fires only once timeoutMs has elapsed since the call began,
\* and the aborted call makes callGuardian resolve to the fallback decision:
\* action fallbackOnError, reason saying "timed out".
C12_TimeoutFallback ==
  [][\A r \in Reviews :
       /\ rev'[r].timer = "fired" => now' - rev'[r].startedAt >= config.timeout_ms
       /\ (rev[r].timer = "fired" /\ rev'[r].timer # "fired") =>
            /\ rev'[r].pc = "done"
            /\ rev'[r].timer = "cleared"
            /\ rev'[r].decision.action = config.fallback_on_error
            /\ ContainsTimedOut(rev'[r].decision.reason)]_vars

C12_Witness ==
  \E r \in Reviews :
    /\ rev[r].pc = "done"
    /\ config.fallback_on_error = "block"
    /\ rev[r].decision.action = "block"
    /\ ContainsTimedOut(rev[r].decision.reason)
    /\ now >= config.timeout_ms

\* The scheduling the event loop guarantees: a due timer callback runs, and a
\* call whose signal was aborted rejects.  Nothing makes the model answer.
SpecLive ==
  /\ Init
  /\ [][Next]_vars
  /\ \A r \in Reviews : WF_vars(TimerFires(r)) /\ WF_vars(AbortSettles(r))

\* C13: a review is suspended only at the model call, and a review still
\* waiting there when the timeout has elapsed completes with a result even if
\* the model never answers.
C13_ReviewCompletes ==
  /\ [](\A r \in Reviews :
          rev[r].pc = "awaiting" => rev[r].path = "reviewed" /\ rev[r].timer # "none")
  /\ \A r \in Reviews :
       (rev[r].pc = "awaiting" /\ now - rev[r].startedAt >= config.timeout_ms)
         ~> (rev[r].pc = "done" /\ rev[r].result.block \in BOOLEAN)

C13_Witness ==
  \E r \in Reviews :
    /\ rev[r].pc = "done"
    /\ rev[r].timer = "cleared"
    /\ config.fallback_on_error = "allow"
    /\ rev[r].result = Allowed
    /\ ContainsTimedOut(rev[r].decision.reason)

TimerOnlyWhileAwaiting ==
  \A r \in Reviews : rev[r].timer \in {"pending", "fired"} => rev[r].pc = "awaiting"

\* the entries of an ordered map that another does not hold
NewEntries(old, new) ==
  {new[i] : i \in 1..Len(new)} \ {old[j] : j \in 1..Len(old)}

\* C15: an entry is added to or changed in the decision cache only by the
\* step in which a review's model call returns, on the full-review path, and
\* it is that review's decision; no step of a review adds or changes an entry
\* of the turn cache.
C15_WritesAfterDecision ==
  [][/\ NewEntries(decisionCache, decisionCache') # {} =>
          \E r \in Reviews :
            /\ Settles(r)
            /\ rev[r].path = "reviewed"
            /\ rev'[r].pc = "done"
            /\ NewEntries(decisionCache, decisionCache') =
                 {[key |-> KeyOf(rev[r]),
                   val |-> [action |-> rev'[r].decision.action,
                            reason |-> rev'[r].decision.reason,
                            cachedAt |-> now]]}
     /\ NewEntries(cache, cache') # {} => rev' = rev]_vars

C15_Witness ==
  \E r \in Reviews :
    /\ rev[r].pc = "awaiting"
    /\ rev[r].timer = "fired"
    /\ cache # <<>>
    /\ \A i \in 1..Len(decisionCache) : decisionCache[i].key # KeyOf(rev[r])

----------------------------------------------------------------------------
(* Claims about the turn cache *)

\* the turns stored under a session key, none if there is no entry
StoredTurns(sessionKey) ==
  IF \E i \in 1..Len(cache) : cache[i].key = sessionKey
  THEN cache[CHOOSE i \in 1..Len(cache) : cache[i].key = sessionKey].val.turns
  ELSE <<>>

\* C16: a review uses only the turns stored under its own session key, a
\* review without a session key uses none; a cached decision is reused only
\* by a review of the session whose review stored it; an update for one
\* session leaves the entries of the others as they were.
C16_SessionsIsolated ==
  [][/\ \A r \in Reviews :
          Enters(r) =>
            /\ rev'[r].turns \in {Unread, <<>>}
               \/ (rev'[r].ctxKey # Undefined /\ rev'[r].turns = StoredTurns(rev'[r].ctxKey))
            /\ rev'[r].path = "cache-hit" =>
                 \A q \in Reviews \ {r} :
                   (rev[q].pc = "done" /\ rev[q].path = "reviewed"
                    /\ KeyOf(rev[q]) = KeyOf(rev'[r]))
                     => rev[q].ctxKey = rev'[r].ctxKey
     /\ inputs' # inputs =>
          \E k \in InputKeys :
            \A i \in 1..Len(cache) :
              cache[i].key # k => \E j \in 1..Len(cache') : cache'[j] = cache[i]]_vars

\* the last n entries of a list, none for n = 0
LastN(list, n) ==
  IF n >= Len(list) THEN list ELSE SubSeq(list, Len(list) - n + 1, Len(list))

\* the sanitized current prompt, and whether it makes a turn
Sanitized(prompt) == stripChannelMetadata(trim(prompt))

PromptCounts(prompt) ==
  /\ prompt # Undefined
  /\ trim(prompt) # <<>>
  /\ Sanitized(prompt) # <<>>
  /\ Head(Sanitized(prompt)) # "/"

\* the history-derived turns followed by the turn of the current prompt
TurnsWithPrompt(historyMessages, prompt) ==
  extractConversationTurns(historyMessages)
    \o (IF PromptCounts(prompt) THEN <<UserTurn(Sanitized(prompt))>> ELSE <<>>)

\* C17: getRecentTurns right after updateCache for the same key returns the
\* last maxTurns entries (none for maxTurns = 0) of the history-derived turns
\* followed by the current prompt's turn when the prompt counts.
C17_UpdateThenGet ==
  [][(probe.op = "updateCache" /\ probe'.op = "getRecentTurns" /\ probe'.key = probe.key)
       => probe'.turns =
            LastN(TurnsWithPrompt(probe.historyMessages, probe.prompt), probe.maxTurns)]_vars

\* the same for a positive maxTurns, where it holds
UpdateThenGetPositive ==
  [][(probe.op = "updateCache" /\ probe'.op = "getRecentTurns" /\ probe'.key = probe.key
      /\ probe.maxTurns > 0)
       => probe'.turns =
            LastN(TurnsWithPrompt(probe.historyMessages, probe.prompt), probe.maxTurns)]_vars

\* whether an entry for a key is there and not older than the TTL now
HasEntry(m, k) == \E i \in 1..Len(m) : m[i].key = k

EntryOf(m, k) == m[CHOOSE i \in 1..Len(m) : m[i].key = k].val

Fresh(k) == HasEntry(cache, k) /\ now - EntryOf(cache, k).updatedAt <= CACHE_TTL_MS

\* a map without the entry of one key
Without(m, k) == SelectSeq(m, LAMBDA e : e.key # k)

\* C18: getRecentTurns returns the stored turns of an entry not older than 30
\* minutes and changes nothing; for an older entry it returns the empty list
\* and removes that entry alone; for no entry it returns the empty list and
\* changes nothing.
C18_GetRespectsTTL ==
  [][probe'.op = "getRecentTurns" =>
       /\ Fresh(probe'.key) =>
            probe'.turns = EntryOf(cache, probe'.key).turns /\ cache' = cache
       /\ (HasEntry(cache, probe'.key) /\ ~Fresh(probe'.key)) =>
            /\ probe'.turns = <<>>
            /\ cache' = Without(cache, probe'.key)
            /\ Len(cache') = Len(cache) - 1
       /\ ~HasEntry(cache, probe'.key) => probe'.turns = <<>> /\ cache' = cache]_vars

C18_Witness ==
  /\ probe.op = "getRecentTurns"
  /\ probe.key = Key(2)
  /\ probe.turns = <<>>
  /\ now > CACHE_TTL_MS
  /\ ~HasEntry(cache, Key(2))
  /\ HasEntry(cache, Key(1))
  /\ Len(cache) = MAX_CACHE_SIZE - 1

\* C19: the turn cache never holds more than 100 entries, and when updateCache
\* returns it holds no entry older than the 30-minute TTL.
C19_PrunedAfterUpdate ==
  [][/\ Len(cache') <= MAX_CACHE_SIZE
     /\ probe'.op = "updateCache" =>
          \A i \in 1..Len(cache') : now' - cache'[i].val.updatedAt <= CACHE_TTL_MS]_vars

C19_Witness ==
  /\ probe.op = "updateCache"
  /\ probe.key = Key(MAX_CACHE_SIZE + 1)
  /\ Len(cache) = MAX_CACHE_SIZE
  /\ HasEntry(cache, Key(MAX_CACHE_SIZE + 1))
  /\ ~HasEntry(cache, Key(1))
  /\ now = 1

\* C20: the entries an update evicts for capacity are the least recently
\* written ones: no entry that stays was written before an evicted one.
C20_EvictsLeastRecentlyWritten ==
  [][probe'.op = "updateCache" =>
       \A i \in 1..Len(cache) :
         (/\ now - cache[i].val.updatedAt <= CACHE_TTL_MS
          /\ cache[i].key # probe'.key
          /\ ~HasEntry(cache', cache[i].key))
           => \A j \in 1..Len(cache') :
                cache'[j].val.updatedAt >= cache[i].val.updatedAt]_vars

\* reads do not refresh position: a get changes neither order nor age of what stays
GetKeepsOrder ==
  [][probe'.op = "getRecentTurns" => cache' = Without(cache, probe'.key) \/ cache' = cache]_vars

----------------------------------------------------------------------------
(* The turn extractor and the sanitizer on their own: a history and a       *)
(* prompt are drawn, the turn limit keeps every turn, then                  *)
(* extractConversationTurns, stripChannelMetadata, updateCache,             *)
(* getRecentTurns and clearCache run                                        *)

MaxMsgs == 3
MaxTurnOps == 2

BlocksContent(blocks) == [kind |-> "blocks", blocks |-> blocks]

\* Messages a history is made of: user texts that count, a slash command, a
\* text that is only a metadata block, a multimodal user message, assistant
\* texts, a blank assistant text and something that is no message
HistoryMessages ==
  { Msg("user", <<"hi">>),
    Msg("user", <<"/", "new">>),
    Msg("user", <<LABEL, NL, FENCE, "m1", FENCE>>),
    [shape |-> "message", role |-> "user",
     content |-> BlocksContent(<<[type |-> "image", text |-> <<>>], TextBlock(<<SP, "q2">>)>>)],
    Msg("assistant", <<"yo">>),
    Msg("assistant", <<"a2", NL>>),
    Msg("assistant", <<SP>>),
    [shape |-> "malformed"] }

\* every history of up to MaxMsgs such messages, a longer one with assistant
\* replies on both sides of a slash command, and one with a long reply
Histories ==
  UNION {[1..n -> HistoryMessages] : n \in 0..MaxMsgs}
    \cup { <<Msg("assistant", <<"yo">>), Msg("user", <<"/", "new">>),
             Msg("assistant", <<"a2", NL>>), Msg("user", <<"hi">>)>>,
           <<Msg("assistant", <<"long", SP, "long", SP, "long">>),
             Msg("assistant", <<"a2", NL>>), Msg("user", <<"hi">>)>> }

\* Current prompts: none, a plain one, slash commands, one behind a metadata
\* block, a slash command behind a metadata block, and a label in front of a
\* metadata block that is followed by a fenced block
TurnPrompts ==
  { Undefined,
    <<"p1">>,
    <<"/", "new">>,
    <<SP, "/", "new">>,
    <<SP, LABEL, SP, FENCE, "m1", FENCE, NL, NL, NL, "p2">>,
    <<LABEL, FENCE, "m1", FENCE, "/", "new">>,
    <<LABEL, SP, LABEL, FENCE, "m1", FENCE, FENCE, "m1", FENCE>> }

InitTurns ==
  /\ ProviderSettled
  /\ cache = <<>>
  /\ now = 0
  /\ inputs = 0
  /\ probe \in [op : {"drawn"}, historyMessages : Histories, prompt : TurnPrompts,
                maxTurns : {MaxMsgs + 1}, turns : {<<>>}, out : {<<>>}]
  /\ config \in Configs
  /\ config.mode = "enforce" /\ config.fallback_on_error = "allow"
  /\ client = "sdk"
  /\ decisionCache = <<>>
  /\ rev = [r \in Reviews |-> IdleReview]

ExtractTurnsStep ==
  /\ inputs < MaxTurnOps
  /\ inputs' = inputs + 1
  /\ probe' = [probe EXCEPT !.op = "extract",
                            !.turns = extractConversationTurns(probe.historyMessages)]
  /\ UNCHANGED <<resolutionAttempted, resolvedModel, hooks, config, client, now, cache, decisionCache, rev>>

StripStep ==
  /\ inputs < MaxTurnOps
  /\ probe.prompt # Undefined
  /\ inputs' = inputs + 1
  /\ probe' = [probe EXCEPT !.op = "strip", !.out = stripChannelMetadata(probe.prompt)]
  /\ UNCHANGED <<resolutionAttempted, resolvedModel, hooks, config, client, now, cache, decisionCache, rev>>

UpdateTurnsStep ==
  /\ inputs < MaxTurnOps
  /\ inputs' = inputs + 1
  /\ cache' = updateCache(cache, Key(1), probe.historyMessages, probe.prompt,
                          probe.maxTurns, now)
  /\ probe' = [probe EXCEPT !.op = "updateCache"]
  /\ UNCHANGED <<resolutionAttempted, resolvedModel, hooks, config, client, now, decisionCache, rev>>

GetTurnsStep ==
  /\ inputs < MaxTurnOps
  /\ inputs' = inputs + 1
  /\ cache' = cacheAfterGet(cache, Key(1), now)
  /\ probe' = [probe EXCEPT !.op = "getRecentTurns",
                            !.turns = getRecentTurns(cache, Key(1), now)]
  /\ UNCHANGED <<resolutionAttempted, resolvedModel, hooks, config, client, now, decisionCache, rev>>

ClearTurnsStep ==
  /\ inputs < MaxTurnOps
  /\ cache # <<>>
  /\ inputs' = inputs + 1
  /\ cache' = <<>>
  /\ probe' = [probe EXCEPT !.op = "clearCache"]
  /\ UNCHANGED <<resolutionAttempted, resolvedModel, hooks, config, client, now, decisionCache, rev>>

NextTurns ==
  \/ ExtractTurnsStep
  \/ StripStep
  \/ UpdateTurnsStep
  \/ GetTurnsStep
  \/ ClearTurnsStep

SpecTurns == InitTurns /\ [][NextTurns]_vars

----------------------------------------------------------------------------
(* Claims about the stored turns, the sanitizer and the extractor *)

AllStoredTurns ==
  {cache[i].val.turns[j] : <<i, j>> \in
     {p \in (1..Len(cache)) \X (1..(MaxMsgs + 2)) : p[2] <= Len(cache[p[1]].val.turns)}}

\* C21: every turn stored in the turn cache, from the history or from the
\* current prompt, has a user text that is not empty and does not start with
\* "/", and an assistant field that is absent or not empty after trimming.
C21_StoredTurnsWellFormed ==
  \A t \in AllStoredTurns :
    /\ t.user # <<>>
    /\ t.user # Undefined
    /\ trim(t.user) # <<>>
    /\ Head(t.user) # "/"
    /\ t.assistant = Undefined \/ trim(t.assistant) # <<>>

\* an update stored a turn of the history and the prompt's turn while the
\* history held a slash command and a blank assistant text
C21_Witness ==
  /\ probe.op = "updateCache"
  /\ \E i \in 1..Len(probe.historyMessages) :
       probe.historyMessages[i] = Msg("user", <<"/", "new">>)
  /\ \E i \in 1..Len(probe.historyMessages) :
       probe.historyMessages[i] = Msg("assistant", <<SP>>)
  /\ probe.prompt = <<SP, LABEL, SP, FENCE, "m1", FENCE, NL, NL, NL, "p2">>
  /\ StoredTurns(Key(1)) = <<UserTurn(<<"hi">>), UserTurn(<<"p2">>)>>

\* C22: stripping is idempotent: what stripChannelMetadata returns holds no
\* label followed by a fenced block and stripping it again returns it
\* unchanged, and no user text stored in a turn holds such a block.
C22_StripIdempotent ==
  /\ probe.op = "strip" =>
       /\ removeMetadata(probe.out) = probe.out
       /\ stripChannelMetadata(probe.out) = probe.out
  /\ \A t \in AllStoredTurns : removeMetadata(t.user) = t.user

\* positions of a history: the user messages, and those that become a turn
IsUser(msg) == isMessageLike(msg) /\ msg.role = "user"

Emits(msg) ==
  /\ IsUser(msg)
  /\ extractTextContent(msg.content) # Undefined
  /\ Head(extractTextContent(msg.content)) # "/"

UserPositions(h) == {i \in 1..Len(h) : IsUser(h[i])}

EmittedPositions(h) == {i \in 1..Len(h) : Emits(h[i])}

\* the position of the message behind the k-th turn
PosOf(h, k) ==
  CHOOSE i \in EmittedPositions(h) : Cardinality({j \in EmittedPositions(h) : j <= i}) = k

\* the last position of S before i, 0 if there is none
LastBefore(S, i) ==
  IF \E j \in S : j < i
  THEN CHOOSE j \in S : j < i /\ \A l \in S : l < i => l <= j
  ELSE 0

\* the assistant texts of the history strictly between two positions, in order
AssistantTexts(h, a, b) ==
  LET said(m) == /\ isMessageLike(m)
                 /\ m.role = "assistant"
                 /\ extractAssistantText(m.content) # Undefined
      w == SelectSeq(SubSeq(h, a + 1, b - 1), said)
  IN [i \in 1..Len(w) |-> extractAssistantText(w[i].content)]

LinesOf(text) == {split(text)[i] : i \in 1..Len(split(text))}

\* C23 as stated: the assistant field of a turn holds only assistant text
\* located after the previous user message of the history and before the
\* turn's own user message, and a user message with no assistant text since
\* the previous user message gets assistant undefined.
C23_UserMessageResets ==
  probe.op = "extract" =>
    \A k \in 1..Len(probe.turns) :
      LET h == probe.historyMessages
          own == PosOf(h, k)
          w == AssistantTexts(h, LastBefore(UserPositions(h), own), own)
      IN /\ w = <<>> => probe.turns[k].assistant = Undefined
         /\ probe.turns[k].assistant # Undefined =>
              LinesOf(probe.turns[k].assistant) \subseteq UNION {LinesOf(w[i]) : i \in 1..Len(w)}

\* C23 amended: extractConversationTurns emits one turn per user message
\* whose sanitized text is not empty and not a slash command, in order; the
\* assistant field of a turn is the assistant texts located after the
\* previous such (emitted) user message and before the turn's own, joined by
\* newlines, and undefined when there is none. A skipped user message does
\* not reset the window.
C23_EmittedUserMessageResets ==
  probe.op = "extract" =>
    LET h == probe.historyMessages
    IN /\ Len(probe.turns) = Cardinality(EmittedPositions(h))
       /\ \A k \in 1..Len(probe.turns) :
            LET own == PosOf(h, k)
                w == AssistantTexts(h, LastBefore(EmittedPositions(h), own), own)
            IN /\ probe.turns[k].user = extractTextContent(h[own].content)
               /\ probe.turns[k].assistant =
                    (IF w = <<>> THEN Undefined ELSE trim(join(w, NL)))

\* two user messages in a row after an assistant reply: the second turn has
\* no assistant text
C23_Witness ==
  /\ probe.op = "extract"
  /\ probe.historyMessages =
       <<Msg("assistant", <<"yo">>), Msg("user", <<"hi">>), Msg("user", <<"hi">>)>>
  /\ probe.turns = <<[user |-> <<"hi">>, assistant |-> <<"yo">>], UserTurn(<<"hi">>)>>

\* the last position of a set of positions, 0 for the empty set
LastOf(S) == IF S = {} THEN 0 ELSE CHOOSE i \in S : \A j \in S : j <= i

\* C24: when the history ends with assistant messages behind the last emitted
\* user turn, that turn's assistant field is its own assistant text followed
\* by the trailing assistant text, joined by newlines; when no turn was
\* emitted the trailing text is dropped and the result is empty.
C24_TrailingAssistantAppended ==
  probe.op = "extract" =>
    LET h == probe.historyMessages
        last == LastOf(EmittedPositions(h))
        before == AssistantTexts(h, LastBefore(EmittedPositions(h), last), last)
        trailing == AssistantTexts(h, last, Len(h) + 1)
    IN /\ last = 0 => probe.turns = <<>>
       /\ (last # 0 /\ trailing # <<>>) =>
            /\ probe.turns # <<>>
            /\ probe.turns[Len(probe.turns)].assistant = trim(join(before \o trailing, NL))

----------------------------------------------------------------------------
(* Claims about the reason of a verdict *)

\* the decision comes from a verdict line, not from the fallback
Recognized(decision) == Head(decision.reason) # "Guardian response not recognized ("

\* the characters of a line behind its first five
AfterFive(line) ==
  CHOOSE rest \in {Tail(line), <<"ED">> \o Tail(line)} :
    CharLen(rest) = CharLen(line) - 5

\* the trimmed text after the first colon of a line, and after its first five
\* characters when it has no colon
ReasonText(line) ==
  IF \E i \in 1..Len(line) : line[i] = COLON
  THEN LET first == CHOOSE i \in 1..Len(line) :
                      line[i] = COLON /\ \A j \in 1..(i - 1) : line[j] # COLON
       IN trim(SubSeq(line, first + 1, Len(line)))
  ELSE trim(AfterFive(line))

\* C25: the reason of a matched verdict line is the trimmed text after the
\* line's first colon, or after the 5-character verdict token when the line
\* has no colon; an empty reason becomes undefined for ALLOW and "Blocked by
\* guardian" for BLOCK; a block decision never has an empty reason.
C25_ReasonOfVerdictLine ==
  (probe.op = "parseGuardianResponse" /\ probe.out # NoDecision) =>
    /\ Recognized(probe.out) =>
         LET line == trim(split(probe.content)[FirstOf(VerdictLines(probe.content))])
             text == ReasonText(line)
         IN /\ VerdictLines(probe.content) # {}
            /\ probe.out.action = "allow" =>
                 probe.out.reason = (IF text = <<>> THEN Undefined ELSE text)
            /\ probe.out.action = "block" =>
                 probe.out.reason = (IF text = <<>> THEN <<"Blocked by guardian">> ELSE text)
    /\ probe.out.action = "block" => probe.out.reason \notin {<<>>, Undefined}

\* a bare BLOCK with its colon got the default reason
C25_Witness ==
  /\ probe.op = "parseGuardianResponse"
  /\ probe.content = <<SP, "BLOCK", COLON, NL, "BLOCKED", SP, "r2">>
  /\ probe.out = [action |-> "block", reason |-> <<"Blocked by guardian">>]

----------------------------------------------------------------------------
(* prompt: the user-side prompt of a review *)

QUOTE == "\""
UNSERIALIZABLE == <<"(unable to serialize arguments)">>
TRUNCATED == "...(truncated)"

\* Tool arguments, by what JSON.stringify does with them:
\*   [json |-> "string", text]  a string is returned
\*   [json |-> "throws"]        it throws (a circular reference, a BigInt)
\*   [json |-> "undefined"]     it returns undefined (undefined, a function, an
\*                              object whose toJSON returns undefined)

\* `${i + 1}.\n${parts.join("\n")}` for the turn at index i
formatTurn(turn, i) ==
  LET parts == (IF turn.assistant # Undefined /\ turn.assistant # <<>>
                THEN <<<<"  Assistant: ", QUOTE>> \o turn.assistant \o <<QUOTE>>>>
                ELSE <<>>)
               \o <<<<"  User: ", QUOTE>> \o turn.user \o <<QUOTE>>>>
  IN <<ToString(i), ".", NL>> \o join(parts, NL)

conversationSection(turns) ==
  IF Len(turns) = 0 THEN <<"(no recent conversation available)">>
  ELSE join([i \in 1..Len(turns) |-> formatTurn(turns[i], i)], NL)

\* argsStr.length > maxArgLength ? argsStr.slice(0, maxArgLength) + marker
truncateArgs(argsStr, maxArgLength) ==
  IF CharLen(argsStr) > maxArgLength
  THEN slice0(argsStr, maxArgLength) \o <<TRUNCATED>>
  ELSE argsStr

\* the template of the prompt around its three insertions
promptTemplate(section, toolName, argsStr) ==
  <<"## Recent conversation (most recent last):", NL>> \o section
    \o <<NL, NL, "## Tool call under review:", NL, "Tool: ">> \o toolName
    \o <<NL, "Arguments: ">> \o argsStr
    \o <<NL, NL, "## Decision criteria:", NL, "<criteria: when to ALLOW, when to BLOCK>",
         NL, NL, "## Read vs Write/Send distinction:", NL, "<read, write and send operations>",
         NL, NL, "## Examples:", NL, "<twelve example calls with their verdicts>">>

\* buildGuardianUserPrompt: the prompt, or a TypeError thrown by argsStr.length
\* when JSON.stringify returned undefined
buildGuardianUserPrompt(turns, toolName, toolArgs, maxArgLength) ==
  IF toolArgs.json = "undefined" THEN [threw |-> TRUE, prompt |-> <<>>]
  ELSE LET argsStr == IF toolArgs.json = "throws" THEN UNSERIALIZABLE ELSE toolArgs.text
       IN [threw |-> FALSE,
           prompt |-> promptTemplate(conversationSection(turns), toolName,
                                     truncateArgs(argsStr, maxArgLength))]

----------------------------------------------------------------------------
(* The prompt builder on its own: one call on every input within the bounds *)

MaxArgTokens == 2

PromptTurns ==
  { <<>>,
    <<UserTurn(<<"hi">>)>>,
    <<UserTurn(<<"q1">>), [user |-> <<"yes">>, assistant |-> <<"a1", NL, "a2">>]>>,
    <<[user |-> <<"yes">>, assistant |-> <<"a1">>], UserTurn(<<"p1">>)>> }

\* serializations of up to MaxArgTokens long tokens (58 characters each) or a
\* short one, and the two ways of having none
PromptArgs ==
  { [json |-> "string", text |-> [i \in 1..n |-> "long"]] : n \in 1..MaxArgTokens }
  \cup { [json |-> "string", text |-> <<"{}">>], [json |-> "throws"], [json |-> "undefined"] }

MaxArgLengths == {58, 60, 500}

InitPrompt ==
  /\ ProviderSettled
  /\ probe \in [op : {"buildGuardianUserPrompt"}, turns : PromptTurns, toolName : ToolNames,
                toolArgs : PromptArgs, maxArgLength : MaxArgLengths,
                out : {[threw |-> FALSE, prompt |-> <<>>]}, built : {FALSE}]
  /\ cache = <<>>
  /\ now = 0
  /\ inputs = 0
  /\ config \in Configs
  /\ config.mode = "enforce" /\ config.fallback_on_error = "allow"
  /\ client = "sdk"
  /\ decisionCache = <<>>
  /\ rev = [r \in Reviews |-> IdleReview]

BuildPromptStep ==
  /\ probe.op = "buildGuardianUserPrompt"
  /\ ~probe.built
  /\ probe' = [probe EXCEPT !.built = TRUE,
                            !.out = buildGuardianUserPrompt(probe.turns, probe.toolName,
                                                            probe.toolArgs, probe.maxArgLength)]
  /\ UNCHANGED <<resolutionAttempted, resolvedModel, hooks, config, client, now, cache, decisionCache, rev, inputs>>

NextPrompt == BuildPromptStep

SpecPrompt == InitPrompt /\ [][NextPrompt]_vars

----------------------------------------------------------------------------
(* Claims about the prompt *)

\* the position of the first occurrence of a token, 0 if there is none
PositionOf(s, t) == indexOf(s, t)

\* what the prompt shows behind "Arguments: " up to the end of that line
ArgumentsShown(prompt) ==
  LET rest == SubSeq(prompt, PositionOf(prompt, "Arguments: ") + 1, Len(prompt))
  IN SubSeq(rest, 1, PositionOf(rest, NL) - 1)

\* C26: buildGuardianUserPrompt never throws; arguments whose serialization
\* fails or gives no string show as "(unable to serialize arguments)", and a
\* serialization longer than maxArgLength shows as its first maxArgLength
\* characters followed by "...(truncated)".
C26_ArgumentsNeverThrow ==
  (probe.op = "buildGuardianUserPrompt" /\ probe.built) =>
    /\ ~probe.out.threw
    /\ probe.toolArgs.json # "string" => ArgumentsShown(probe.out.prompt) = UNSERIALIZABLE
    /\ probe.toolArgs.json = "string" =>
         LET text == probe.toolArgs.text
             shown == ArgumentsShown(probe.out.prompt)
         IN IF CharLen(text) <= probe.maxArgLength THEN shown = text
            ELSE /\ shown[Len(shown)] = TRUNCATED
                 /\ SubSeq(shown, 1, Len(shown) - 1) = slice0(text, probe.maxArgLength)

\* the same without the arguments that serialize to undefined, where it holds
ArgumentsSerializedOrThrown ==
  probe.toolArgs.json # "undefined" => C26_ArgumentsNeverThrow

\* the closing instruction the prompt is to end with
CLOSING == "Reply with a single line: ALLOW: <reason> or BLOCK: <reason>"

\* the part of the prompt that shows turn i: from its number up to the next
\* turn's number, or up to the tool section for the last turn
TurnShown(prompt, i, n) ==
  LET from == PositionOf(prompt, ToString(i))
      to == IF i < n THEN PositionOf(prompt, ToString(i + 1))
            ELSE PositionOf(prompt, "## Tool call under review:")
  IN SubSeq(prompt, from, to - 1)

\* C27: a prompt shows, in this order, the turn section (numbered turns, the
\* assistant line before the user line, or "(no recent conversation
\* available)" when there are no turns), the tool name, the serialized
\* arguments, and after them a closing instruction that restates the
\* single-line "ALLOW: <reason> or BLOCK: <reason>" format.
C27_PromptOrder ==
  (probe.op = "buildGuardianUserPrompt" /\ probe.built /\ ~probe.out.threw) =>
    LET p == probe.out.prompt
        n == Len(probe.turns)
        tool == PositionOf(p, "Tool: ")
        arguments == PositionOf(p, "Arguments: ")
    IN /\ n = 0 => PositionOf(p, "(no recent conversation available)") \in 1..(tool - 1)
       /\ \A i \in 1..n :
            /\ PositionOf(p, ToString(i)) \in 1..(tool - 1)
            /\ i < n => PositionOf(p, ToString(i)) < PositionOf(p, ToString(i + 1))
            /\ PositionOf(TurnShown(p, i, n), "  User: ") >= 1
            /\ probe.turns[i].assistant # Undefined =>
                 /\ PositionOf(TurnShown(p, i, n), "  Assistant: ") >= 1
                 /\ PositionOf(TurnShown(p, i, n), "  Assistant: ")
                      < PositionOf(TurnShown(p, i, n), "  User: ")
       /\ SubSeq(p, tool + 1, tool + Len(probe.toolName)) = probe.toolName
       /\ tool < arguments
       /\ PositionOf(p, CLOSING) > arguments

\* the order of the sections without the closing instruction, which holds
PromptOrderUpToArguments ==
  (probe.op = "buildGuardianUserPrompt" /\ probe.built /\ ~probe.out.threw) =>
    LET p == probe.out.prompt
        n == Len(probe.turns)
        tool == PositionOf(p, "Tool: ")
    IN /\ n = 0 => PositionOf(p, "(no recent conversation available)") \in 1..(tool - 1)
       /\ \A i \in 1..n :
            /\ PositionOf(p, ToString(i)) \in 1..(tool - 1)
            /\ probe.turns[i].assistant # Undefined =>
                 PositionOf(TurnShown(p, i, n), "  Assistant: ")
                   < PositionOf(TurnShown(p, i, n), "  User: ")
       /\ tool < PositionOf(p, "Arguments: ")
       /\ PositionOf(p, CLOSING) = 0

----------------------------------------------------------------------------
(* Claims about logging *)

\* the configuration with decision logging switched off
Quiet(cfg) == [cfg EXCEPT !.log_decisions = FALSE]

\* C28: logging does not alter behaviour: what a review returns (or that it
\* throws) and what it leaves in the decision cache and in the turn cache are
\* the same with decision logging off as with it on, at the entry of the
\* review and when the model call settles.
C28_LoggingIsInert ==
  [][\A r \in Reviews :
       /\ Enters(r) =>
            LET quiet == reviewSync(Quiet(config), decisionCache, cache, now,
                                    rev'[r].toolName, rev'[r].ctxKey, rev'[r].args)
            IN /\ quiet.pc = rev'[r].pc
               /\ quiet.result = rev'[r].result
               /\ quiet.dc = decisionCache'
               /\ quiet.tc = cache'
       /\ (Settles(r) /\ rev'[r].pc = "done") =>
            rev'[r].result = finalResult(Quiet(config), rev'[r].decision)]_vars

----------------------------------------------------------------------------
(* Claims about repeated updates *)

----------------------------------------------------------------------------
(* The before_tool_call hook up to reviewToolCall: the lazy resolution of the *)
(* provider by ensureProviderResolved, with invocations that overlap          *)

\* what the hook returns when ensureProviderResolved returned false
providerFallback(cfg) ==
  IF cfg.fallback_on_error = "block"
  THEN [block |-> TRUE, blockReason |-> <<"Guardian provider not resolved">>]
  ELSE NoOp

\* resolveModelFromConfig: a provider configured with its baseUrl, with or
\* without an apiKey, or the partial model
ConfiguredModels ==
  { NoModel, [baseUrl |-> TRUE, apiKey |-> FALSE], FullModel }

\* what the SDK answers for the provider: resolveProviderInfo returns the
\* info, returns nothing or throws; resolveApiKeyForProvider returns a key,
\* returns none or throws
SdkAnswers ==
  [op : {"sdk"}, info : {"found", "missing", "throws"}, auth : {"key", "nokey", "throws"},
   configured : ConfiguredModels]

InitResolve ==
  /\ resolutionAttempted = FALSE
  /\ probe \in SdkAnswers
  /\ resolvedModel = probe.configured
  /\ hooks = [i \in HookCalls |-> IdleHook]
  /\ config \in Configs
  /\ client = "sdk"
  /\ now = 0
  /\ cache = <<>>
  /\ decisionCache = <<>>
  /\ rev = [r \in Reviews |-> IdleReview]
  /\ inputs = 0

\* Mutant of afterBaseUrl: the API key is asked for also when there is one
afterBaseUrlAlwaysAsks(model) == "awaitKey"

\* where ensureProviderResolved goes once the baseUrl is there
afterBaseUrl(model) == IF ~model.apiKey THEN "awaitKey" ELSE "resolved"

\* the invocation with its next position, the SDK calls it makes noted
hookAt(hook, pc) ==
  [hook EXCEPT !.pc = pc,
               !.askedInfo = @ \/ pc = "awaitInfo",
               !.askedKey = @ \/ pc = "awaitKey"]

\* the hook is invoked: ensureProviderResolved runs up to its first await or
\* to its return
BeforeToolCall(i, toolName) ==
  /\ hooks[i].pc = "idle"
  /\ IF i = 1 THEN TRUE ELSE hooks[i - 1].pc # "idle"
  /\ IF resolutionAttempted
     THEN /\ hooks' = [hooks EXCEPT ![i] =
                         IF resolvedModel.baseUrl
                         THEN [@ EXCEPT !.pc = "resolved", !.toolName = toolName]
                         ELSE [@ EXCEPT !.pc = "done", !.toolName = toolName,
                                        !.path = "provider-fallback",
                                        !.result = providerFallback(config)]]
          /\ UNCHANGED resolutionAttempted
     ELSE /\ resolutionAttempted' = TRUE
          /\ hooks' = [hooks EXCEPT ![i] =
                         hookAt([@ EXCEPT !.toolName = toolName],
                                IF ~resolvedModel.baseUrl THEN "awaitInfo"
                                ELSE afterBaseUrl(resolvedModel))]
  /\ UNCHANGED <<resolvedModel, config, client, now, cache, decisionCache, rev, inputs, probe>>

\* resolveProviderInfo settles
InfoSettles(i) ==
  /\ hooks[i].pc = "awaitInfo"
  /\ IF probe.info = "found"
     THEN /\ resolvedModel' = [resolvedModel EXCEPT !.baseUrl = TRUE]
          /\ hooks' = [hooks EXCEPT ![i] = hookAt(@, afterBaseUrl(resolvedModel))]
     ELSE /\ hooks' = [hooks EXCEPT ![i] =
                         [@ EXCEPT !.pc = "done", !.path = "provider-fallback",
                                   !.result = providerFallback(config)]]
          /\ UNCHANGED resolvedModel
  /\ UNCHANGED <<resolutionAttempted, config, client, now, cache, decisionCache, rev, inputs, probe>>

\* resolveApiKeyForProvider settles
KeySettles(i) ==
  /\ hooks[i].pc = "awaitKey"
  /\ resolvedModel' = [resolvedModel EXCEPT !.apiKey = @ \/ probe.auth = "key"]
  /\ hooks' = [hooks EXCEPT ![i].pc = "resolved"]
  /\ UNCHANGED <<resolutionAttempted, config, client, now, cache, decisionCache, rev, inputs, probe>>

\* ensureProviderResolved returned true: reviewToolCall is called with
\* resolvedModel as it is now and returns at once for an unwatched tool
StartReview(i) ==
  /\ hooks[i].pc = "resolved"
  /\ hooks' = [hooks EXCEPT ![i] =
                 IF lowerName(hooks[i].toolName) \notin config.watched
                 THEN [@ EXCEPT !.pc = "done", !.path = "unwatched", !.result = NoOp]
                 ELSE [@ EXCEPT !.pc = "reviewing", !.path = "review",
                                !.model = resolvedModel]]
  /\ UNCHANGED <<resolutionAttempted, resolvedModel, config, client, now, cache,
                 decisionCache, rev, inputs, probe>>

NextResolve ==
  \/ \E i \in HookCalls, toolName \in ToolNames : BeforeToolCall(i, toolName)
  \/ \E i \in HookCalls : InfoSettles(i)
  \/ \E i \in HookCalls : KeySettles(i)
  \/ \E i \in HookCalls : StartReview(i)

SpecResolve == InitResolve /\ [][NextResolve]_vars

----------------------------------------------------------------------------
(* Claims about the resolution of the provider *)

\* the SDK resolves the provider and its key
Resolvable == probe.op = "sdk" /\ probe.info = "found" /\ probe.auth = "key"

\* C30: for a provider the SDK can resolve, no invocation of the hook is
\* answered by the "provider not resolved" fallback, and none reaches
\* reviewToolCall with a model that lacks its base URL or its API key, also
\* when it arrives while the first invocation's resolution is in flight.
C30_ResolvedBeforeReview ==
  Resolvable =>
    \A i \in HookCalls :
      /\ hooks[i].path # "provider-fallback"
      /\ hooks[i].pc = "reviewing" => hooks[i].model = FullModel

\* the same for an invocation that is alone, where it holds
AloneResolvedBeforeReview ==
  (Resolvable /\ \A i \in HookCalls : i > 1 => hooks[i].pc = "idle") =>
    /\ hooks[1].path # "provider-fallback"
    /\ hooks[1].pc = "reviewing" => hooks[1].model = FullModel

----------------------------------------------------------------------------
(* Claims about the hook as a whole *)

\* C31: in audit mode no invocation of the before_tool_call hook returns a
\* block instruction, also when the provider could not be resolved and the
\* fallback policy is block.
C31_AuditHookNeverBlocks ==
  config.mode = "audit" => \A i \in HookCalls : ~hooks[i].result.block

\* C32: for a tool whose lowercased name is not watched the hook returns no
\* block instruction, whatever the resolution of the provider and the
\* fallback policy are.
C32_UnwatchedBypassesHook ==
  \A i \in HookCalls :
    (hooks[i].pc = "done" /\ lowerName(hooks[i].toolName) \notin config.watched)
      => hooks[i].result = NoOp

\* an unwatched tool whose provider is resolved does bypass the review
UnwatchedResolvedBypasses ==
  \A i \in HookCalls :
    (hooks[i].pc = "done" /\ lowerName(hooks[i].toolName) \notin config.watched
     /\ hooks[i].path # "provider-fallback")
      => hooks[i].result = NoOp /\ hooks[i].path = "unwatched"

\* C33: over all invocations resolveProviderInfo and resolveApiKeyForProvider
\* are each called at most once, and neither is called when the configuration
\* supplies both the base URL and the API key.
C33_SdkAskedOnce ==
  /\ Cardinality({i \in HookCalls : hooks[i].askedInfo}) <= 1
  /\ Cardinality({i \in HookCalls : hooks[i].askedKey}) <= 1
  /\ probe.configured = FullModel =>
       \A i \in HookCalls : ~hooks[i].askedInfo /\ ~hooks[i].askedKey
  /\ \A i \in HookCalls : hooks[i].askedInfo => ~probe.configured.baseUrl
  /\ \A i \in HookCalls : hooks[i].askedKey => ~probe.configured.apiKey

\* two invocations are past the resolution, the first asked the SDK for both,
\* the second for nothing; and with a full configuration nobody asks
C33_Witness ==
  /\ hooks[1].askedInfo /\ hooks[1].askedKey
  /\ hooks[1].pc = "reviewing" /\ hooks[1].model = FullModel
  /\ hooks[2].pc = "reviewing" /\ ~hooks[2].askedInfo /\ ~hooks[2].askedKey

----------------------------------------------------------------------------
(* Claims about the parser's fallback and about reported timeouts *)

\* C35: for every non-empty response text the action is allow or block, and
\* the result is the fallback decision, its reason noting the unrecognized
\* response, exactly when no line of the text begins with ALLOW or BLOCK.
C35_FallbackIffNoVerdictLine ==
  (probe.op = "parseGuardianResponse" /\ probe.out # NoDecision
   /\ trim(probe.content) # <<>>) =>
    /\ probe.out.action \in {"allow", "block"}
    /\ ~Recognized(probe.out) <=> VerdictLines(probe.content) = {}
    /\ ~Recognized(probe.out) =>
         /\ probe.out.action = probe.fallbackOnError
         /\ probe.out.reason[Len(probe.out.reason)]
              = makeFallbackDecision(probe.fallbackOnError).reason[1]

\* the same for the completeSimple-based client alone, where it holds
FallbackIffNoVerdictLineScan == probe.client = "sdk" => C35_FallbackIffNoVerdictLine

\* C36: the decision callGuardian returns says "timed out" exactly when the
\* timeout timer had fired before the model call settled; a model call that
\* fails while the timer is pending is reported as "Guardian error", whatever
\* its message.
C36_TimeoutOnlyWhenTimerFired ==
  [][(probe.op = "callGuardian" /\ probe.out.kind = "pending"
      /\ probe'.out.kind = "return") =>
       /\ ContainsTimedOut(probe'.out.decision.reason) <=> probe.timer = "fired"
       /\ (probe.outcome.kind = "reject" /\ probe.timer = "pending") =>
            Head(probe'.out.decision.reason) = "Guardian error: <errMsg>: "]_vars

\* the same without the rejections whose message holds "abort" while the
\* timer is pending, where it holds
TimeoutReportedForAbort ==
  [][(probe.op = "callGuardian" /\ probe.out.kind = "pending"
      /\ probe'.out.kind = "return"
      /\ ~(probe.outcome.kind = "reject" /\ probe.timer = "pending"
           /\ includesAbort(probe.outcome.msg))) =>
       /\ ContainsTimedOut(probe'.out.decision.reason) <=> probe.timer = "fired"
       /\ (probe.outcome.kind = "reject" /\ probe.timer = "pending") =>
            Head(probe'.out.decision.reason) = "Guardian error: <errMsg>: "]_vars

----------------------------------------------------------------------------
(* Claim about fallback decisions in the decision cache *)

\* the decision is a fallback of callGuardian: its reason ends in the text of
\* makeFallbackDecision
IsFallbackDecision(d) ==
  /\ d.action \in {"allow", "block"}
  /\ Len(d.reason) > 1
  /\ d.reason[Len(d.reason)] = makeFallbackDecision(d.action).reason[1]

\* C34: a review whose model call ends in a fallback decision stores it under
\* (session, tool) like a verdict, and a later review of the same pair entered
\* while that entry is within the TTL takes the fallback action from the cache
\* without a model call.
C34_FallbackCachedLikeVerdict ==
  [][\A r \in Reviews :
       /\ (Settles(r) /\ rev'[r].pc = "done" /\ IsFallbackDecision(rev'[r].decision)) =>
            /\ HasLive(KeyOf(rev[r]))'
            /\ LiveEntry(KeyOf(rev[r]))'.action = rev'[r].decision.action
            /\ IsFallbackDecision(LiveEntry(KeyOf(rev[r])))'
       /\ (Enters(r) /\ Watched(rev'[r]) /\ HasLive(KeyOf(rev'[r]))
           /\ IsFallbackDecision(LiveEntry(KeyOf(rev'[r])))) =>
            /\ rev'[r].path = "cache-hit"
            /\ ~ModelCalled(rev'[r])
            /\ rev'[r].decision.action = LiveEntry(KeyOf(rev'[r])).action
            /\ rev'[r].result.block
                 = (config.mode = "enforce" /\ LiveEntry(KeyOf(rev'[r])).action = "block")]_vars

C34_Witness ==
  /\ rev[1].pc = "done" /\ rev[1].path = "reviewed" /\ ModelCalled(rev[1])
  /\ IsFallbackDecision(rev[1].decision)
  /\ rev[2].pc = "done" /\ rev[2].path = "cache-hit" /\ ~ModelCalled(rev[2])
  /\ KeyOf(rev[1]) = KeyOf(rev[2])
  /\ rev[2].decision.action = rev[1].decision.action
  /\ rev[2].result.block = (config.mode = "enforce" /\ rev[1].decision.action = "block")

----------------------------------------------------------------------------
(* The decision cache on its own: getCachedDecision and setCachedDecision on
   caches of 0, 2 and MAX_DECISION_CACHE_SIZE entries *)

DecisionKey(i) == cacheKeyOf(Key(i), <<"exec">>)

\* the decision cache after reviews of sessions 1..n have settled at time 0
FilledDecisions(n) ==
  [i \in 1..n |-> [key |-> DecisionKey(i),
                   val |-> [action |-> "allow", reason |-> Undefined, cachedAt |-> 0]]]

DecisionKeys == {DecisionKey(1), DecisionKey(2), DecisionKey(MAX_DECISION_CACHE_SIZE + 1)}

InitDecisions ==
  /\ ProviderSettled
  /\ decisionCache \in {FilledDecisions(n) : n \in {0, 2, MAX_DECISION_CACHE_SIZE}}
  /\ now = 0
  /\ inputs = 0
  /\ probe = NoProbe
  /\ config \in Configs
  /\ config.mode = "enforce" /\ config.fallback_on_error = "allow"
  /\ client = "sdk"
  /\ cache = <<>>
  /\ rev = [r \in Reviews |-> IdleReview]

GetCachedDecisionOp(key) ==
  /\ inputs < MaxCacheOps
  /\ inputs' = inputs + 1
  /\ decisionCache' = decisionCacheAfterGet(decisionCache, key, now)
  /\ probe' = [op |-> "getCachedDecision", key |-> key,
               had |-> MapHas(decisionCache, key),
               out |-> getCachedDecision(decisionCache, key, now)]
  /\ UNCHANGED <<resolutionAttempted, resolvedModel, hooks, config, client, now, cache, rev>>

SetCachedDecisionOp(key, decision) ==
  /\ inputs < MaxCacheOps
  /\ inputs' = inputs + 1
  /\ decisionCache' = setCachedDecision(decisionCache, key, decision.action,
                                        decision.reason, now)
  /\ probe' = [op |-> "setCachedDecision", key |-> key, decision |-> decision]
  /\ UNCHANGED <<resolutionAttempted, resolvedModel, hooks, config, client, now, cache, rev>>

NextDecisions ==
  \/ \E k \in DecisionKeys : GetCachedDecisionOp(k)
  \/ \E k \in DecisionKeys, a \in {"allow", "block"} :
       SetCachedDecisionOp(k, [action |-> a, reason |-> <<"r1">>])
  \/ \E d \in Ticks : AdvanceClock(d)

SpecDecisions == InitDecisions /\ [][NextDecisions]_vars

\* C37: the decision cache never holds more than 256 entries; a store that
\* would exceed the bound removes entries from the oldest-inserted end and
\* leaves the others as they were, in order; a lookup of an entry older than
\* 5000 ms misses and deletes that entry, any other lookup changes nothing.
C37_DecisionCacheBoundedShortLived ==
  [][/\ Len(decisionCache) <= 256
     /\ Len(decisionCache') <= 256
     /\ probe'.op = "setCachedDecision" =>
          LET k == probe'.key
              isNew == \A i \in 1..Len(decisionCache) : decisionCache[i].key # k
              grown == Len(decisionCache) + (IF isNew THEN 1 ELSE 0)
              dropped == IF grown > 256 THEN grown - 256 ELSE 0
          IN /\ Len(decisionCache') = grown - dropped
             /\ \A i \in 1..(Len(decisionCache) - dropped) :
                  /\ decisionCache'[i].key = decisionCache[i + dropped].key
                  /\ decisionCache'[i].key # k => decisionCache'[i] = decisionCache[i + dropped]
             /\ \E i \in 1..Len(decisionCache') :
                  /\ decisionCache'[i].key = k
                  /\ decisionCache'[i].val = [action |-> probe'.decision.action,
                                              reason |-> probe'.decision.reason,
                                              cachedAt |-> now]
                  /\ isNew => i = Len(decisionCache')
     /\ probe'.op = "getCachedDecision" =>
          LET k == probe'.key
              old == {i \in 1..Len(decisionCache) :
                        decisionCache[i].key = k /\ now - decisionCache[i].val.cachedAt > 5000}
              young == {i \in 1..Len(decisionCache) :
                          decisionCache[i].key = k /\ now - decisionCache[i].val.cachedAt <= 5000}
          IN /\ old # {} => /\ probe'.out = NoEntry
                            /\ decisionCache' = SelectSeq(decisionCache, LAMBDA e : e.key # k)
             /\ old = {} => decisionCache' = decisionCache
             /\ young # {} => \E i \in young : probe'.out = decisionCache[i].val
             /\ (old = {} /\ young = {}) => probe'.out = NoEntry]_vars

\* a store into the full cache has evicted the oldest entry, and a lookup
\* 5001 ms later has missed and deleted the entry stored
C37_Witness ==
  /\ probe.op = "getCachedDecision" /\ probe.had /\ probe.out = NoEntry
  /\ probe.key = DecisionKey(MAX_DECISION_CACHE_SIZE + 1)
  /\ now = 5001
  /\ Len(decisionCache) = MAX_DECISION_CACHE_SIZE - 1
  /\ Head(decisionCache).key = DecisionKey(2)

----------------------------------------------------------------------------
(* Claims about skipped user messages, assistant text and malformed entries *)

SkippedPositions(h) == UserPositions(h) \ EmittedPositions(h)

\* C38: a user message that is empty after sanitization or slash-prefixed
\* produces no turn, and the assistant texts on both sides of it, back to the
\* previous emitted user message, all go to the next emitted turn, in order.
C38_SkippedUserMessageInert ==
  probe.op = "extract" =>
    LET h == probe.historyMessages
    IN /\ Len(probe.turns) = Cardinality(UserPositions(h)) - Cardinality(SkippedPositions(h))
       /\ \A s \in SkippedPositions(h) : \A k \in 1..Len(probe.turns) :
            LET own == PosOf(h, k)
                prev == LastBefore(EmittedPositions(h), own)
                around == AssistantTexts(h, prev, s) \o AssistantTexts(h, s, own)
            IN (prev < s /\ s < own) =>
                 /\ probe.turns[k].user # extractTextContent(h[s].content)
                 /\ around = <<>> => probe.turns[k].assistant = Undefined
                 /\ around # <<>> => probe.turns[k].assistant = join(around, NL)

\* a slash command between two assistant replies: both replies are attached
\* to the turn of the user message that follows
C38_Witness ==
  /\ probe.op = "extract"
  /\ probe.historyMessages =
       <<Msg("assistant", <<"yo">>), Msg("user", <<"/", "new">>),
         Msg("assistant", <<"a2", NL>>), Msg("user", <<"hi">>)>>
  /\ probe.turns = <<[user |-> <<"hi">>, assistant |-> <<"yo", NL, "a2">>]>>

\* the assistant messages of the history strictly between two positions
AssistantMessages(h, a, b) ==
  SelectSeq(SubSeq(h, a + 1, b - 1),
            LAMBDA m : isMessageLike(m) /\ m.role = "assistant" /\ m.content.kind = "string")

\* the characters of all the texts together
RECURSIVE TotalLen(_)
TotalLen(texts) == IF texts = <<>> THEN 0 ELSE CharLen(Head(texts)) + TotalLen(Tail(texts))

WithoutMalformed(h) == SelectSeq(h, LAMBDA m : m.shape # "malformed")

\* C40: entries of the history that are no messages (null, a non-object, no
\* string role, no content) raise no error, and the turns extracted are those
\* extracted from the history with these entries removed.
C40_MalformedEntriesSkipped ==
  probe.op = "extract" =>
    /\ probe.turns \in Seq([user : Seq(STRING), assistant : Seq(STRING)])
    /\ probe.turns = extractConversationTurns(WithoutMalformed(probe.historyMessages))
    /\ Len(probe.turns) = Cardinality(EmittedPositions(WithoutMalformed(probe.historyMessages)))

\* a non-message between an assistant reply and the user message after it
C40_Witness ==
  /\ probe.op = "extract"
  /\ probe.historyMessages =
       <<Msg("assistant", <<"yo">>), [shape |-> "malformed"], Msg("user", <<"hi">>)>>
  /\ probe.turns = <<[user |-> <<"hi">>, assistant |-> <<"yo">>]>>

====
